---- MODULE Spec2Model ----
(***************************************************************************)
(* Browser/session lifecycle manager of Playwright-WebSocket               *)
(* (src/src/browser/manager.ts): the browser pool, the context/page        *)
(* registry and the interactive login coordinator.                         *)
(*                                                                         *)
(* Every exported async function is cut at its await points: one action    *)
(* per synchronous segment.  The browser engine is an external             *)
(* collaborator; each engine call may succeed or reject.  A rejected call  *)
(* leaves the engine object as it was.                                     *)
(***************************************************************************)
EXTENDS Integers, Sequences, FiniteSets, TLC

(* ------------------------------ bounds --------------------------------- *)
MaxBrowsers == 2
MaxContexts == 2
MaxLogins == 2
MaxClock == 2
MaxConnections == 2
MaxProfiles == 2
MaxTabs == 2
MaxTransports == 3
MaxListeners == 3

(* Two concurrent callers: every race of the manager is between the        *)
(* synchronous segments of two calls.                                       *)
Procs == {1, 2}
Client == 1
Operator == 2
(* The connections the WebSocket server accepts.                           *)
WsClients == {1, 2}
WsSender == 1

(* Strings are sequences of characters, so that the key construction and   *)
(* the prefix test of closeContext are computed as the code computes them. *)
NoSession == <<>>
(* The (contextId, session) pairs the callers use: three pairs, two of     *)
(* which are different pairs with the same cache key.                      *)
RegistryKeys == { << <<"a">>, NoSession >>, << <<"a">>, <<"b">> >>,
                  << <<"a", ":", "b">>, NoSession >> }
PoolKeys == { << <<"a">>, NoSession >> }
SeedNames == { <<"b">> }
SeedKeys == { << <<"a">>, NoSession >>, << <<"a">>, <<"b">> >> }
SessionNames == { <<"b">>, <<"w">> }
(* The names the session store is called with: the login names and a name   *)
(* that path.join maps to the file of another name.                         *)
StoreNames == SessionNames \cup { <<".", "/", "b">> }
(* The session argument of getSharedPage: none, or a name with no file     *)
(* that is also a part of the URL of a Chrome tab.                          *)
SharedSessions == { NoSession, <<"m">> }
(* getRealChromePage is called with no pattern or with one.                 *)
NoPattern == <<>>
Patterns == { NoPattern, <<"m">> }
(* The tabs the user's Chrome can be started with, by their URLs.           *)
BlankUrl == <<"_">>
ChromeTabs == { <<>>, << <<"x">>, <<"y", "m">> >> }
(* The cookies a storage state can hold.                                    *)
Cookies == { "a=1" }

Null == 0

VARIABLES
  browsers,            \* engine: every browser process the pool launched
  contexts,            \* engine: every context created by createContext
  headlessBrowser,     \* manager.ts:9
  headedBrowser,       \* manager.ts:10
  activeContexts,      \* manager.ts:19 (Map, insertion ordered)
  activePages,         \* manager.ts:20
  loginContexts,       \* engine: every persistent context of startLoginSession
  activeLoginSessions, \* manager.ts:122
  sessionFiles,        \* session store: the file at each session path
  now,                 \* wall clock in milliseconds (new Date())
  saved,               \* history: names a storage state was saved under
  chrome,              \* the user's Chrome: debugging port up, its tabs
  cdpBrowsers,         \* engine: every connection made by connectOverCDP
  connectedBrowser,    \* manager.ts: connectedBrowser
  profileContexts,     \* engine: every context of launchRealChromeProfile
  realChromeContext,   \* manager.ts: realChromeContext
  profileLock,         \* the Singleton* lock files of PLAYWRIGHT_PROFILE exist
  clients,             \* part_003:12 (Map) with the socket of each client
  transports,          \* part_005: transports (Map from session id to transport)
  mcpTransports,       \* SDK: every StreamableHTTPServerTransport constructed
  loadListeners,       \* engine: the 'load' listeners of the page of each context
  pageLoads,           \* history: the last load event and its 'page:load' messages
  pc,                  \* position of each running call
  call,                \* arguments of each running call
  loc,                 \* local variables of each running call
  ret,                 \* value returned by each call
  quiet                \* history: closeAll of p runs and no other call began since it began

vars == << browsers, contexts, headlessBrowser, headedBrowser, activeContexts,
           activePages, loginContexts, activeLoginSessions, sessionFiles,
           now, saved, chrome, cdpBrowsers, connectedBrowser, profileContexts,
           realChromeContext, profileLock, clients, transports, mcpTransports,
           loadListeners, pageLoads, pc, call, loc, ret, quiet >>

poolVars == << browsers, headlessBrowser, headedBrowser >>
registryVars == << activeContexts, activePages >>
loginVars == << loginContexts, activeLoginSessions, sessionFiles >>
bridgeVars == << chrome, cdpBrowsers, connectedBrowser, profileContexts,
                realChromeContext >>
mcpVars == << transports, mcpTransports >>
eventVars == << loadListeners, pageLoads >>
hostVars == << profileLock, clients, mcpVars, eventVars >>

(* ----------------------------- strings --------------------------------- *)

\* `${contextId}:${session}` or contextId (an empty session is falsy)
getContextKey(contextId, session) ==
  IF session # NoSession THEN contextId \o <<":">> \o session ELSE contextId

\* String.prototype.startsWith
StartsWith(s, prefix) ==
  Len(s) >= Len(prefix) /\ SubSeq(s, 1, Len(prefix)) = prefix

\* key === contextId || key.startsWith(`${contextId}:`)
KeyMatches(key, contextId) ==
  key = contextId \/ StartsWith(key, contextId \o <<":">>)

(* --------------------------- Session Store ----------------------------- *)

\* config.sessionsDir, as one path segment
SessionsDir == <<"sessions">>

\* the segments of a path string, split at "/"
RECURSIVE Split(_)
Split(s) ==
  IF s = <<>> THEN << <<>> >>
  ELSE LET r == Split(Tail(s)) IN
       IF Head(s) = "/" THEN << <<>> >> \o r
       ELSE << <<Head(s)>> \o Head(r) >> \o Tail(r)

\* path.normalize on segments: "" and "." are dropped, ".." removes the
\* segment before it
RECURSIVE Normalize(_, _)
Normalize(acc, segs) ==
  IF segs = <<>> THEN acc
  ELSE LET h == Head(segs) IN
       Normalize(IF h = <<>> \/ h = <<".">> THEN acc
                 ELSE IF h = <<".", ".">> /\ acc # <<>> /\ acc[Len(acc)] # <<".", ".">>
                   THEN SubSeq(acc, 1, Len(acc) - 1)
                   ELSE Append(acc, h),
                 Tail(segs))

\* path.join(config.sessionsDir, `${name}-session.json`)
getSessionPath(name) ==
  Normalize(<<>>, << SessionsDir >> \o Split(name \o <<"-session.json">>))

SessionPaths ==
  { getSessionPath(n) : n \in StoreNames \cup (SharedSessions \ {NoSession}) }

NoFile == [exists |-> FALSE, state |-> {}, createdAt |-> 0, lastUsed |-> 0]

\* fs.existsSync(getSessionPath(name))
sessionExists(name) == sessionFiles[getSessionPath(name)].exists

\* the file at path is written with a storage state: a new file is born
\* now, an existing one keeps its birth time; the modification time is now
WriteFile(path, state) ==
  [sessionFiles EXCEPT ![path] =
     [exists |-> TRUE, state |-> state,
      createdAt |-> IF sessionFiles[path].exists THEN sessionFiles[path].createdAt
                                                 ELSE now,
      lastUsed |-> now]]

\* fs.unlinkSync(path)
UnlinkFile(path) == [sessionFiles EXCEPT ![path] = NoFile]

\* fs.utimesSync(path, now, now) when the file exists
TouchFile(path) ==
  IF sessionFiles[path].exists
    THEN [sessionFiles EXCEPT ![path].lastUsed = now]
    ELSE sessionFiles

(* ------------------- Map (insertion ordered) --------------------------- *)

MapIndex(m, k) ==
  IF \E i \in 1..Len(m) : m[i].key = k
    THEN CHOOSE i \in 1..Len(m) : m[i].key = k
    ELSE 0

MapHas(m, k) == MapIndex(m, k) # 0

MapGet(m, k) == IF MapHas(m, k) THEN m[MapIndex(m, k)].val ELSE Null

\* set keeps the position of an existing key and appends a new one
MapSet(m, k, v) ==
  IF MapHas(m, k)
    THEN [m EXCEPT ![MapIndex(m, k)].val = v]
    ELSE Append(m, [key |-> k, val |-> v])

MapDelete(m, k) ==
  IF MapHas(m, k)
    THEN SubSeq(m, 1, MapIndex(m, k) - 1) \o SubSeq(m, MapIndex(m, k) + 1, Len(m))
    ELSE m

MapKeys(m) == { m[i].key : i \in 1..Len(m) }

MapValues(m) == { m[i].val : i \in 1..Len(m) }

\* A live Map iterator that has passed `it` entries, after key k is deleted:
\* entries behind the deleted one move up by one.
IterAfterDelete(it, m, k) ==
  IF MapHas(m, k) /\ it >= MapIndex(m, k) THEN it - 1 ELSE it

(* ----------------------------- engine ---------------------------------- *)

\* Browser.isConnected()
IsConnected(b) == b # Null /\ browsers[b].connected

\* a context is live until it is closed or its browser goes away
ContextOpen(c) == c # Null /\ contexts[c].open

\* Page.isClosed(); the primary page of context c is page c
PageIsClosed(pg) == ~contexts[pg].pageOpen

\* BrowserContext.close() resolved: the context and its pages are closed
ContextsAfterClose(c) ==
  [contexts EXCEPT ![c].open = FALSE, ![c].pageOpen = FALSE]

\* the browser process ended: all of its contexts and pages are closed
ContextsAfterBrowserGone(cs, b) ==
  [i \in DOMAIN cs |->
     IF cs[i].browser = b
       THEN [cs[i] EXCEPT !.open = FALSE, !.pageOpen = FALSE]
       ELSE cs[i]]

BrowsersAfterClose(b) == [browsers EXCEPT ![b].connected = FALSE]

(* ------------------------------ calls ---------------------------------- *)

NoCall == [op |-> "none", contextId |-> <<>>, session |-> NoSession, headless |-> TRUE,
           urlPattern |-> NoPattern, via |-> "none", client |-> Null, type |-> "none"]
NoLoc == [br |-> Null, ctx |-> Null, existing |-> Null, key |-> <<>>, it |-> 0,
          err |-> FALSE, seed |-> "none", state |-> {}, transport |-> Null]
NoRet == [context |-> Null, page |-> Null, created |-> FALSE, success |-> FALSE,
          source |-> "none", error |-> FALSE, tabs |-> <<>>,
          message |-> "none", cause |-> <<>>, status |-> 0, transport |-> Null]

\* no load event has happened
NoLoad == [page |-> Null, due |-> {}, sent |-> <<>>]

\* a connection the server has not accepted yet
NoClient == [sock |-> "none", listed |-> FALSE, isAlive |-> FALSE, ping |-> FALSE,
             pong |-> FALSE]

Running(q) == pc[q] \notin {"idle", "done", "threw"}

\* a call of p begins: it ends the quiet of every other call
QuietAfterStart(p) == [q \in Procs |-> FALSE]

\* closeAll of p begins: it is quiet if nothing else is running
QuietAfterCloseAll(p) ==
  [q \in Procs |-> q = p /\ \A r \in Procs \ {p} : ~Running(r)]

InCreation(q) == pc[q] \in {"launch", "newContext"}

(* ------------------------- Browser Pool -------------------------------- *)

Slot(headless) == IF headless THEN headlessBrowser ELSE headedBrowser

\* as NeedsLaunch when only an empty slot is launched for
NeedsLaunchWhenNull(headless) == Slot(headless) = Null

\* as NeedsLaunch with the negation of isConnected() lost
NeedsLaunchWhenConnected(headless) ==
  Slot(headless) = Null \/ browsers[Slot(headless)].connected

\* manager.ts:58 / :63  !browser || !browser.isConnected()
NeedsLaunch(headless) ==
  Slot(headless) = Null \/ ~browsers[Slot(headless)].connected

(* ---------------------- Context/Page Registry -------------------------- *)

\* as NeedsNewPage with the negation of isClosed() added by mistake
NeedsNewPageWhenOpen(key) ==
  \/ MapGet(activeContexts, key) = Null
  \/ MapGet(activePages, key) = Null
  \/ ~PageIsClosed(MapGet(activePages, key))

\* manager.ts:340  !context || !page || page.isClosed()
NeedsNewPage(key) ==
  \/ MapGet(activeContexts, key) = Null
  \/ MapGet(activePages, key) = Null
  \/ PageIsClosed(MapGet(activePages, key))

\* as RegisterContext when the first registration is kept
RegisterContextIfAbsent(key, c) ==
  IF MapHas(activeContexts, key) THEN activeContexts ELSE MapSet(activeContexts, key, c)

\* manager.ts:344  activeContexts.set(cacheKey, context)
RegisterContext(key, c) == MapSet(activeContexts, key, c)

\* as RegisterPage when the page map is left as it is
RegisterPageSkipped(key, pg) == activePages

\* manager.ts:345  activePages.set(cacheKey, page)
RegisterPage(key, pg) == MapSet(activePages, key, pg)

\* manager.ts:79  options.session && sessionExists(options.session): the
\* session file is passed to browser.newContext as storageState
Seed(session) ==
  IF session # NoSession /\ sessionExists(session) THEN "path" ELSE "none"

\* as EnterGetOrCreatePage when a reused entry also touches its session
EnterGetOrCreatePageTouching(p, contextId, session, headless) ==
  LET key == getContextKey(contextId, session) IN
  /\ IF ~NeedsNewPage(key)
       THEN /\ pc' = [pc EXCEPT ![p] = "done"]
            /\ ret' = [ret EXCEPT ![p] = [NoRet EXCEPT
                         !.context = MapGet(activeContexts, key),
                         !.page = MapGet(activePages, key),
                         !.success = TRUE]]
            /\ loc' = [loc EXCEPT ![p] = NoLoc]
            /\ sessionFiles' = IF session # NoSession
                                 THEN TouchFile(getSessionPath(session))
                                 ELSE sessionFiles
       ELSE /\ Len(contexts) + Cardinality({q \in Procs : InCreation(q)}) < MaxContexts
            /\ IF NeedsLaunch(headless)
                 THEN /\ Len(browsers) + Cardinality({q \in Procs : pc[q] = "launch"})
                           < MaxBrowsers
                      /\ pc' = [pc EXCEPT ![p] = "launch"]
                      /\ loc' = [loc EXCEPT ![p] = [NoLoc EXCEPT !.key = key]]
                 ELSE /\ pc' = [pc EXCEPT ![p] = "newContext"]
                      /\ loc' = [loc EXCEPT ![p] = [NoLoc EXCEPT !.key = key,
                                                     !.br = Slot(headless),
                                                     !.seed = Seed(session)]]
            /\ UNCHANGED << ret, sessionFiles >>
  /\ UNCHANGED << hostVars, now, saved, poolVars, contexts, registryVars, loginContexts,
                  activeLoginSessions >>

\* the body of getOrCreatePage up to its first await: lookup; on a miss
\* createContext calls getBrowser, which either awaits a launch or goes on
\* to browser.newContext
EnterGetOrCreatePage(p, contextId, session, headless) ==
  LET key == getContextKey(contextId, session) IN
  /\ IF ~NeedsNewPage(key)
       THEN /\ pc' = [pc EXCEPT ![p] = "done"]
            /\ ret' = [ret EXCEPT ![p] = [NoRet EXCEPT
                         !.context = MapGet(activeContexts, key),
                         !.page = MapGet(activePages, key),
                         !.success = TRUE]]
            /\ loc' = [loc EXCEPT ![p] = NoLoc]
       ELSE /\ Len(contexts) + Cardinality({q \in Procs : InCreation(q)}) < MaxContexts
            /\ IF NeedsLaunch(headless)
                 THEN /\ Len(browsers) + Cardinality({q \in Procs : pc[q] = "launch"})
                           < MaxBrowsers
                      /\ pc' = [pc EXCEPT ![p] = "launch"]
                      /\ loc' = [loc EXCEPT ![p] = [NoLoc EXCEPT !.key = key]]
                 ELSE /\ pc' = [pc EXCEPT ![p] = "newContext"]
                      /\ loc' = [loc EXCEPT ![p] = [NoLoc EXCEPT !.key = key,
                                                     !.br = Slot(headless),
                                                     !.seed = Seed(session)]]
            /\ UNCHANGED ret
  /\ UNCHANGED << hostVars, now, saved, poolVars, contexts, registryVars, loginVars >>

\* getOrCreatePage is called
GetOrCreatePage(p, contextId, session, headless) ==
  /\ pc[p] = "idle"
  /\ call' = [call EXCEPT ![p] = [NoCall EXCEPT !.op = "getOrCreatePage",
                                  !.contextId = contextId, !.session = session,
                                  !.headless = headless]]
  /\ quiet' = QuietAfterStart(p)
  /\ EnterGetOrCreatePage(p, contextId, session, headless)
  /\ UNCHANGED bridgeVars

\* chromium.launch resolved: the slot is assigned, then browser.newContext
LaunchOk(p) ==
  /\ pc[p] = "launch"
  /\ Len(browsers) < MaxBrowsers
  /\ browsers' = Append(browsers, [headless |-> call[p].headless, connected |-> TRUE])
  /\ IF call[p].headless
       THEN headlessBrowser' = Len(browsers) + 1 /\ UNCHANGED headedBrowser
       ELSE headedBrowser' = Len(browsers) + 1 /\ UNCHANGED headlessBrowser
  /\ loc' = [loc EXCEPT ![p].br = Len(browsers) + 1,
                         ![p].seed = Seed(call[p].session)]
  /\ pc' = [pc EXCEPT ![p] = "newContext"]
  /\ UNCHANGED << hostVars, bridgeVars, now, saved, contexts, registryVars, loginVars, call, ret, quiet >>

\* chromium.launch rejected: getOrCreatePage rejects
LaunchFail(p) ==
  /\ pc[p] = "launch"
  /\ pc' = [pc EXCEPT ![p] = "threw"]
  /\ loc' = [loc EXCEPT ![p] = NoLoc]
  /\ UNCHANGED << hostVars, bridgeVars, now, saved, poolVars, contexts, registryVars, loginVars, call, ret, quiet >>

\* browser.newContext({ storageState: sessionPath }) reads the session file
\* while the call is pending; it rejects when the file is gone by then
ReadStorageState(p) ==
  LET f == getSessionPath(call[p].session) IN
  /\ pc[p] = "newContext"
  /\ loc[p].seed = "path"
  /\ IF sessionFiles[f].exists
       THEN /\ loc' = [loc EXCEPT ![p].seed = "read", ![p].state = sessionFiles[f].state]
            /\ UNCHANGED pc
       ELSE /\ loc' = [loc EXCEPT ![p] = NoLoc]
            /\ pc' = [pc EXCEPT ![p] = "threw"]
  /\ UNCHANGED << hostVars, bridgeVars, now, saved, poolVars, contexts, registryVars, loginVars,
                  call, ret, quiet >>

\* as NewContextOk when the session file is ignored
NewContextOkBare(p) ==
  /\ pc[p] = "newContext"
  /\ loc[p].seed # "path"
  /\ IsConnected(loc[p].br)
  /\ Len(contexts) < MaxContexts
  /\ contexts' = Append(contexts, [browser |-> loc[p].br, open |-> TRUE,
                                   pageOpen |-> FALSE,
                                   contextId |-> call[p].contextId,
                                   session |-> call[p].session,
                                   state |-> {}])
  /\ loc' = [loc EXCEPT ![p].ctx = Len(contexts) + 1]
  /\ pc' = [pc EXCEPT ![p] = "addInitScript"]
  /\ UNCHANGED << hostVars, bridgeVars, now, saved, poolVars, registryVars, loginVars, call, ret, quiet >>

\* browser.newContext resolved: a context seeded with the storage state
\* that was read, followed by touchSession; or a bare context
NewContextOk(p) ==
  /\ pc[p] = "newContext"
  /\ loc[p].seed # "path"
  /\ IsConnected(loc[p].br)
  /\ Len(contexts) < MaxContexts
  /\ contexts' = Append(contexts, [browser |-> loc[p].br, open |-> TRUE,
                                   pageOpen |-> FALSE,
                                   contextId |-> call[p].contextId,
                                   session |-> call[p].session,
                                   state |-> loc[p].state])
  /\ sessionFiles' = IF loc[p].seed = "read"
                       THEN TouchFile(getSessionPath(call[p].session))
                       ELSE sessionFiles
  /\ loc' = [loc EXCEPT ![p].ctx = Len(contexts) + 1]
  /\ pc' = [pc EXCEPT ![p] = "addInitScript"]
  /\ UNCHANGED << hostVars, bridgeVars, now, saved, poolVars, registryVars, loginContexts,
                  activeLoginSessions, call, ret, quiet >>

NewContextFail(p) ==
  /\ pc[p] = "newContext"
  /\ pc' = [pc EXCEPT ![p] = "threw"]
  /\ loc' = [loc EXCEPT ![p] = NoLoc]
  /\ UNCHANGED << hostVars, bridgeVars, now, saved, poolVars, contexts, registryVars, loginVars, call, ret, quiet >>

\* context.addInitScript resolved: createContext returns, createPage begins
AddInitScriptOk(p) ==
  /\ pc[p] = "addInitScript"
  /\ ContextOpen(loc[p].ctx)
  /\ pc' = [pc EXCEPT ![p] = "newPage"]
  /\ UNCHANGED << hostVars, bridgeVars, now, saved, poolVars, contexts, registryVars, loginVars, call, loc, ret, quiet >>

AddInitScriptFail(p) ==
  /\ pc[p] = "addInitScript"
  /\ pc' = [pc EXCEPT ![p] = "threw"]
  /\ loc' = [loc EXCEPT ![p] = NoLoc]
  /\ UNCHANGED << hostVars, bridgeVars, now, saved, poolVars, contexts, registryVars, loginVars, call, ret, quiet >>

\* context.newPage resolved: both maps are set and the pair is returned
NewPageOk(p) ==
  /\ pc[p] = "newPage"
  /\ ContextOpen(loc[p].ctx)
  /\ contexts' = [contexts EXCEPT ![loc[p].ctx].pageOpen = TRUE]
  /\ activeContexts' = RegisterContext(loc[p].key, loc[p].ctx)
  /\ activePages' = RegisterPage(loc[p].key, loc[p].ctx)
  /\ ret' = [ret EXCEPT ![p] = [NoRet EXCEPT !.context = loc[p].ctx,
                                  !.page = loc[p].ctx,
                                  !.created = TRUE, !.success = TRUE]]
  /\ pc' = [pc EXCEPT ![p] = "done"]
  /\ loc' = [loc EXCEPT ![p] = NoLoc]
  /\ UNCHANGED << hostVars, bridgeVars, now, saved, poolVars, loginVars, call, quiet >>

NewPageFail(p) ==
  /\ pc[p] = "newPage"
  /\ pc' = [pc EXCEPT ![p] = "threw"]
  /\ loc' = [loc EXCEPT ![p] = NoLoc]
  /\ UNCHANGED << hostVars, bridgeVars, now, saved, poolVars, contexts, registryVars, loginVars, call, ret, quiet >>

(* ---------------------------- closeContext ----------------------------- *)

\* the for..of loop of closeContext runs on to the next matching entry
\* without suspending; 0 when the iterator is exhausted
NextMatch(m, it, contextId) ==
  IF \E j \in (it + 1)..Len(m) : KeyMatches(m[j].key, contextId)
    THEN CHOOSE j \in (it + 1)..Len(m) :
           /\ KeyMatches(m[j].key, contextId)
           /\ \A i \in (it + 1)..(j - 1) : ~KeyMatches(m[i].key, contextId)
    ELSE 0

\* the locals of p when its loop stops at entry j of m
AtEntry(l, m, j) == [l EXCEPT !.it = j, !.ctx = m[j].val, !.key = m[j].key]

\* every live iterator after activeContexts.delete(k)
LocAfterDelete(k) ==
  [q \in Procs |-> [loc[q] EXCEPT !.it = IterAfterDelete(loc[q].it, activeContexts, k)]]

\* as CloseContext when a missing entry is reported as an error
CloseContextMissingThrows(p, contextId, session) ==
  /\ pc[p] = "idle"
  /\ call' = [call EXCEPT ![p] = [NoCall EXCEPT !.op = "closeContext",
                                  !.contextId = contextId, !.session = session]]
  /\ quiet' = QuietAfterStart(p)
  /\ IF session # NoSession
       THEN LET key == getContextKey(contextId, session) IN
            IF MapGet(activeContexts, key) # Null
              THEN /\ pc' = [pc EXCEPT ![p] = "ccClose"]
                   /\ loc' = [loc EXCEPT ![p] = [NoLoc EXCEPT !.key = key,
                                !.ctx = MapGet(activeContexts, key)]]
              ELSE /\ pc' = [pc EXCEPT ![p] = "threw"]
                   /\ UNCHANGED loc
       ELSE LET j == NextMatch(activeContexts, 0, contextId) IN
            IF j # 0
              THEN /\ pc' = [pc EXCEPT ![p] = "ccClose"]
                   /\ loc' = [loc EXCEPT ![p] = AtEntry(NoLoc, activeContexts, j)]
              ELSE /\ pc' = [pc EXCEPT ![p] = "threw"]
                   /\ UNCHANGED loc
  /\ UNCHANGED << hostVars, bridgeVars, now, saved, poolVars, contexts, registryVars, loginVars, ret >>

CloseContext(p, contextId, session) ==
  /\ pc[p] = "idle"
  /\ call' = [call EXCEPT ![p] = [NoCall EXCEPT !.op = "closeContext",
                                  !.contextId = contextId, !.session = session]]
  /\ quiet' = QuietAfterStart(p)
  /\ IF session # NoSession
       THEN LET key == getContextKey(contextId, session) IN
            IF MapGet(activeContexts, key) # Null
              THEN /\ pc' = [pc EXCEPT ![p] = "ccClose"]
                   /\ loc' = [loc EXCEPT ![p] = [NoLoc EXCEPT !.key = key,
                                !.ctx = MapGet(activeContexts, key)]]
              ELSE /\ pc' = [pc EXCEPT ![p] = "done"]
                   /\ UNCHANGED loc
       ELSE LET j == NextMatch(activeContexts, 0, contextId) IN
            IF j # 0
              THEN /\ pc' = [pc EXCEPT ![p] = "ccClose"]
                   /\ loc' = [loc EXCEPT ![p] = AtEntry(NoLoc, activeContexts, j)]
              ELSE /\ pc' = [pc EXCEPT ![p] = "done"]
                   /\ UNCHANGED loc
  /\ UNCHANGED << hostVars, bridgeVars, now, saved, poolVars, contexts, registryVars, loginVars, ret >>

\* as CloseContextCloseOk when a call with a session unregisters every
\* entry of its contextId
CloseContextCloseOkSweeps(p) ==
  LET Keep(m) == SelectSeq(m, LAMBDA e : ~KeyMatches(e.key, call[p].contextId)) IN
  /\ pc[p] = "ccClose"
  /\ contexts' = ContextsAfterClose(loc[p].ctx)
  /\ activeContexts' = Keep(MapDelete(activeContexts, loc[p].key))
  /\ activePages' = Keep(MapDelete(activePages, loc[p].key))
  /\ loc' = [q \in Procs |-> IF q = p THEN NoLoc ELSE [loc[q] EXCEPT !.it = 0]]
  /\ pc' = [pc EXCEPT ![p] = "done"]
  /\ UNCHANGED << hostVars, bridgeVars, now, saved, poolVars, loginVars, call, ret, quiet >>

\* context.close() resolved: delete the key from both maps, loop on
CloseContextCloseOk(p) ==
  LET k == loc[p].key
      m == MapDelete(activeContexts, k)
      l == LocAfterDelete(k)
      j == NextMatch(m, l[p].it, call[p].contextId)
  IN
  /\ pc[p] = "ccClose"
  /\ contexts' = ContextsAfterClose(loc[p].ctx)
  /\ activeContexts' = m
  /\ activePages' = MapDelete(activePages, k)
  /\ IF call[p].session = NoSession /\ j # 0
       THEN /\ loc' = [l EXCEPT ![p] = AtEntry(l[p], m, j)]
            /\ UNCHANGED pc
       ELSE /\ loc' = [l EXCEPT ![p] = NoLoc]
            /\ pc' = [pc EXCEPT ![p] = "done"]
  /\ UNCHANGED << hostVars, bridgeVars, now, saved, poolVars, loginVars, call, ret, quiet >>

\* context.close() rejected: closeContext rejects, nothing is deleted
CloseContextCloseFail(p) ==
  /\ pc[p] = "ccClose"
  /\ pc' = [pc EXCEPT ![p] = "threw"]
  /\ loc' = [loc EXCEPT ![p] = NoLoc]
  /\ UNCHANGED << hostVars, bridgeVars, now, saved, poolVars, contexts, registryVars, loginVars, call, ret, quiet >>

(* ------------------------------ closeAll ------------------------------- *)

\* as BrowserStage when the headed browser is forgotten
BrowserStageHeadlessOnly(p, hl, hd, l) ==
  IF hl # Null
    THEN /\ pc' = [pc EXCEPT ![p] = "caHeadless"]
         /\ loc' = [l EXCEPT ![p].br = hl]
    ELSE /\ pc' = [pc EXCEPT ![p] = "done"]
         /\ loc' = [l EXCEPT ![p] = [NoLoc EXCEPT !.err = l[p].err]]

\* after the context loop: the next browser to close, read from the slots
\* at that moment
BrowserStage(p, hl, hd, l) ==
  IF hl # Null
    THEN /\ pc' = [pc EXCEPT ![p] = "caHeadless"]
         /\ loc' = [l EXCEPT ![p].br = hl]
    ELSE IF hd # Null
      THEN /\ pc' = [pc EXCEPT ![p] = "caHeaded"]
           /\ loc' = [l EXCEPT ![p].br = hd]
      ELSE /\ pc' = [pc EXCEPT ![p] = "done"]
           /\ loc' = [l EXCEPT ![p] = [NoLoc EXCEPT !.err = l[p].err]]

\* as CloseAll when shutting the registry down also ends every login
CloseAllEndsLogins(p) ==
  /\ pc[p] = "idle"
  /\ call' = [call EXCEPT ![p] = [NoCall EXCEPT !.op = "closeAll"]]
  /\ quiet' = QuietAfterCloseAll(p)
  /\ IF Len(activeContexts) > 0
       THEN /\ pc' = [pc EXCEPT ![p] = "caClose"]
            /\ loc' = [loc EXCEPT ![p] = AtEntry(NoLoc, activeContexts, 1)]
       ELSE BrowserStage(p, headlessBrowser, headedBrowser,
                         [loc EXCEPT ![p] = NoLoc])
  /\ loginContexts' = [c \in DOMAIN loginContexts |->
                        [loginContexts[c] EXCEPT !.open = FALSE]]
  /\ activeLoginSessions' = [n \in SessionNames |-> Null]
  /\ UNCHANGED << hostVars, bridgeVars, now, saved, poolVars, contexts, registryVars,
                  sessionFiles, ret >>

CloseAll(p) ==
  /\ pc[p] = "idle"
  /\ call' = [call EXCEPT ![p] = [NoCall EXCEPT !.op = "closeAll"]]
  /\ quiet' = QuietAfterCloseAll(p)
  /\ IF Len(activeContexts) > 0
       THEN /\ pc' = [pc EXCEPT ![p] = "caClose"]
            /\ loc' = [loc EXCEPT ![p] = AtEntry(NoLoc, activeContexts, 1)]
       ELSE BrowserStage(p, headlessBrowser, headedBrowser,
                         [loc EXCEPT ![p] = NoLoc])
  /\ UNCHANGED << hostVars, bridgeVars, now, saved, poolVars, contexts, registryVars, loginVars, ret >>

\* context.close() settled inside try/catch: delete the key, loop on
CloseAllClose(p, ok) ==
  LET k == loc[p].key
      m == MapDelete(activeContexts, k)
      l0 == LocAfterDelete(k)
      l == [l0 EXCEPT ![p].err = l0[p].err \/ ~ok]
      j == l[p].it + 1
  IN
  /\ pc[p] = "caClose"
  /\ contexts' = IF ok THEN ContextsAfterClose(loc[p].ctx) ELSE contexts
  /\ activeContexts' = m
  /\ activePages' = MapDelete(activePages, k)
  /\ IF j <= Len(m)
       THEN /\ loc' = [l EXCEPT ![p] = AtEntry(l[p], m, j)]
            /\ UNCHANGED pc
       ELSE BrowserStage(p, headlessBrowser, headedBrowser, l)
  /\ UNCHANGED << hostVars, bridgeVars, now, saved, poolVars, loginVars, call, ret, quiet >>

\* headlessBrowser.close() settled inside try/catch; headlessBrowser = null
CloseAllHeadless(p, ok) ==
  /\ pc[p] = "caHeadless"
  /\ browsers' = IF ok THEN BrowsersAfterClose(loc[p].br) ELSE browsers
  /\ contexts' = IF ok THEN ContextsAfterBrowserGone(contexts, loc[p].br) ELSE contexts
  /\ headlessBrowser' = Null
  /\ BrowserStage(p, Null, headedBrowser, [loc EXCEPT ![p].err = loc[p].err \/ ~ok])
  /\ UNCHANGED << hostVars, bridgeVars, now, saved, headedBrowser, registryVars, loginVars, call, ret, quiet >>

\* headedBrowser.close() settled inside try/catch; headedBrowser = null
CloseAllHeaded(p, ok) ==
  /\ pc[p] = "caHeaded"
  /\ browsers' = IF ok THEN BrowsersAfterClose(loc[p].br) ELSE browsers
  /\ contexts' = IF ok THEN ContextsAfterBrowserGone(contexts, loc[p].br) ELSE contexts
  /\ headedBrowser' = Null
  /\ pc' = [pc EXCEPT ![p] = "done"]
  /\ loc' = [loc EXCEPT ![p] = [NoLoc EXCEPT !.err = loc[p].err \/ ~ok]]
  /\ UNCHANGED << hostVars, bridgeVars, now, saved, headlessBrowser, registryVars, loginVars, call, ret, quiet >>

(* --------------------- Interactive Login Coordinator ------------------- *)

InLoginLaunch(q) == pc[q] \in {"slClosePrior", "slLaunch"}

\* activeLoginSessions.delete(sessionName)
LoginDelete(name) == [activeLoginSessions EXCEPT ![name] = Null]

\* BrowserContext.close() of a persistent context resolved
LoginContextsAfterClose(c) == [loginContexts EXCEPT ![c].open = FALSE]

\* startLoginSession, first segment: an existing entry is closed first,
\* otherwise launchPersistentContext is awaited at once
StartLoginSession(p, name) ==
  /\ pc[p] = "idle"
  /\ Len(loginContexts) + Cardinality({q \in Procs : InLoginLaunch(q)}) < MaxLogins
  /\ call' = [call EXCEPT ![p] = [NoCall EXCEPT !.op = "startLoginSession",
                                  !.session = name]]
  /\ quiet' = QuietAfterStart(p)
  /\ IF activeLoginSessions[name] # Null
       THEN /\ pc' = [pc EXCEPT ![p] = "slClosePrior"]
            /\ loc' = [loc EXCEPT ![p] = [NoLoc EXCEPT
                         !.existing = activeLoginSessions[name]]]
       ELSE /\ pc' = [pc EXCEPT ![p] = "slLaunch"]
            /\ loc' = [loc EXCEPT ![p] = NoLoc]
  /\ UNCHANGED << hostVars, bridgeVars, now, saved, poolVars, contexts, registryVars, loginVars, ret >>

\* as StartLoginPriorClosed when the prior context is never closed
StartLoginPriorKept(p, ok) ==
  /\ pc[p] = "slClosePrior"
  /\ activeLoginSessions' = LoginDelete(call[p].session)
  /\ loc' = [loc EXCEPT ![p].err = FALSE]
  /\ pc' = [pc EXCEPT ![p] = "slLaunch"]
  /\ UNCHANGED << hostVars, bridgeVars, now, saved, poolVars, contexts, registryVars, loginContexts, sessionFiles,
                  call, ret, quiet >>

\* existing.context.close() settled inside try/catch; the entry is deleted
\* and launchPersistentContext is awaited
StartLoginPriorClosed(p, ok) ==
  /\ pc[p] = "slClosePrior"
  /\ loginContexts' = IF ok THEN LoginContextsAfterClose(loc[p].existing)
                            ELSE loginContexts
  /\ activeLoginSessions' = LoginDelete(call[p].session)
  /\ loc' = [loc EXCEPT ![p].err = ~ok]
  /\ pc' = [pc EXCEPT ![p] = "slLaunch"]
  /\ UNCHANGED << hostVars, bridgeVars, now, saved, poolVars, contexts, registryVars, sessionFiles, call, ret, quiet >>

\* chromium.launchPersistentContext resolved; addInitScript is awaited
StartLoginLaunchOk(p) ==
  /\ pc[p] = "slLaunch"
  /\ Len(loginContexts) < MaxLogins
  /\ loginContexts' = Append(loginContexts, [open |-> TRUE, name |-> call[p].session,
                                               state |-> {}])
  /\ loc' = [loc EXCEPT ![p].ctx = Len(loginContexts) + 1]
  /\ pc' = [pc EXCEPT ![p] = "slInit"]
  /\ UNCHANGED << hostVars, bridgeVars, now, saved, poolVars, contexts, registryVars, activeLoginSessions,
                  sessionFiles, call, ret, quiet >>

\* context.addInitScript resolved; newPage is awaited
StartLoginInitOk(p) ==
  /\ pc[p] = "slInit"
  /\ loginContexts[loc[p].ctx].open
  /\ pc' = [pc EXCEPT ![p] = "slNewPage"]
  /\ UNCHANGED << hostVars, bridgeVars, now, saved, poolVars, contexts, registryVars, loginVars, call, loc, ret, quiet >>

\* context.newPage resolved; page.goto is awaited inside try
StartLoginNewPageOk(p) ==
  /\ pc[p] = "slNewPage"
  /\ loginContexts[loc[p].ctx].open
  /\ pc' = [pc EXCEPT ![p] = "slGoto"]
  /\ UNCHANGED << hostVars, bridgeVars, now, saved, poolVars, contexts, registryVars, loginVars, call, loc, ret, quiet >>

\* launchPersistentContext, addInitScript or newPage rejected outside any
\* try: startLoginSession rejects
StartLoginThrows(p) ==
  /\ pc[p] \in {"slLaunch", "slInit", "slNewPage"}
  /\ pc' = [pc EXCEPT ![p] = "threw"]
  /\ loc' = [loc EXCEPT ![p] = NoLoc]
  /\ UNCHANGED << hostVars, bridgeVars, now, saved, poolVars, contexts, registryVars, loginVars, call, ret, quiet >>

\* page.goto resolved: the session is stored and success is returned
StartLoginGotoOk(p) ==
  /\ pc[p] = "slGoto"
  /\ loginContexts[loc[p].ctx].open
  /\ activeLoginSessions' = [activeLoginSessions EXCEPT ![call[p].session] = loc[p].ctx]
  /\ ret' = [ret EXCEPT ![p] = [NoRet EXCEPT !.context = loc[p].ctx, !.created = TRUE,
                                  !.success = TRUE]]
  /\ pc' = [pc EXCEPT ![p] = "done"]
  /\ loc' = [loc EXCEPT ![p] = NoLoc]
  /\ UNCHANGED << hostVars, bridgeVars, now, saved, poolVars, contexts, registryVars, loginContexts, sessionFiles,
                  call, quiet >>

\* page.goto rejected: context.close() is awaited in the catch block
StartLoginGotoFail(p) ==
  /\ pc[p] = "slGoto"
  /\ pc' = [pc EXCEPT ![p] = "slAbandon"]
  /\ UNCHANGED << hostVars, bridgeVars, now, saved, poolVars, contexts, registryVars, loginVars, call, loc, ret, quiet >>

\* context.close() of the catch block settled: a failure result is returned
\* when it resolved, startLoginSession rejects when it rejected
StartLoginAbandon(p, ok) ==
  /\ pc[p] = "slAbandon"
  /\ loginContexts' = IF ok THEN LoginContextsAfterClose(loc[p].ctx) ELSE loginContexts
  /\ pc' = [pc EXCEPT ![p] = IF ok THEN "done" ELSE "threw"]
  /\ loc' = [loc EXCEPT ![p] = NoLoc]
  /\ UNCHANGED << hostVars, bridgeVars, now, saved, poolVars, contexts, registryVars, activeLoginSessions,
                  sessionFiles, call, ret, quiet >>

\* saveLoginSession, first segment
SaveLoginSession(p, name) ==
  /\ pc[p] = "idle"
  /\ call' = [call EXCEPT ![p] = [NoCall EXCEPT !.op = "saveLoginSession",
                                  !.session = name]]
  /\ quiet' = QuietAfterStart(p)
  /\ IF activeLoginSessions[name] = Null
       THEN /\ pc' = [pc EXCEPT ![p] = "done"]
            /\ loc' = [loc EXCEPT ![p] = NoLoc]
       ELSE /\ pc' = [pc EXCEPT ![p] = "svState"]
            /\ loc' = [loc EXCEPT ![p] = [NoLoc EXCEPT !.ctx = activeLoginSessions[name]]]
  /\ UNCHANGED << hostVars, bridgeVars, now, saved, poolVars, contexts, registryVars, loginVars, ret >>

\* as SaveLoginState when a successful save also closes the login window
SaveLoginStateAndClose(p, ok) ==
  /\ pc[p] = "svState"
  /\ ok => loginContexts[loc[p].ctx].open
  /\ sessionFiles' = IF ok THEN WriteFile(getSessionPath(call[p].session),
                                           loginContexts[loc[p].ctx].state)
                           ELSE sessionFiles
  /\ loginContexts' = IF ok THEN LoginContextsAfterClose(loc[p].ctx) ELSE loginContexts
  /\ activeLoginSessions' = IF ok THEN LoginDelete(call[p].session)
                                  ELSE activeLoginSessions
  /\ saved' = IF ok THEN saved \cup {call[p].session} ELSE saved
  /\ ret' = [ret EXCEPT ![p] = [NoRet EXCEPT !.context = loc[p].ctx, !.success = ok]]
  /\ pc' = [pc EXCEPT ![p] = "done"]
  /\ loc' = [loc EXCEPT ![p] = NoLoc]
  /\ UNCHANGED << hostVars, bridgeVars, now, poolVars, contexts, registryVars, call, quiet >>

\* context.storageState({ path }) settled inside try/catch
SaveLoginState(p, ok) ==
  /\ pc[p] = "svState"
  /\ ok => loginContexts[loc[p].ctx].open
  /\ sessionFiles' = IF ok THEN WriteFile(getSessionPath(call[p].session),
                                           loginContexts[loc[p].ctx].state)
                           ELSE sessionFiles
  /\ saved' = IF ok THEN saved \cup {call[p].session} ELSE saved
  /\ ret' = [ret EXCEPT ![p] = [NoRet EXCEPT !.context = loc[p].ctx, !.success = ok]]
  /\ pc' = [pc EXCEPT ![p] = "done"]
  /\ loc' = [loc EXCEPT ![p] = NoLoc]
  /\ UNCHANGED << hostVars, bridgeVars, now, poolVars, contexts, registryVars, loginContexts,
                  activeLoginSessions, call, quiet >>

\* closeLoginSession, first segment
CloseLoginSession(p, name) ==
  /\ pc[p] = "idle"
  /\ call' = [call EXCEPT ![p] = [NoCall EXCEPT !.op = "closeLoginSession",
                                  !.session = name]]
  /\ quiet' = QuietAfterStart(p)
  /\ IF activeLoginSessions[name] = Null
       THEN /\ pc' = [pc EXCEPT ![p] = "done"]
            /\ loc' = [loc EXCEPT ![p] = NoLoc]
       ELSE /\ pc' = [pc EXCEPT ![p] = "clState"]
            /\ loc' = [loc EXCEPT ![p] = [NoLoc EXCEPT !.ctx = activeLoginSessions[name]]]
  /\ UNCHANGED << hostVars, bridgeVars, now, saved, poolVars, contexts, registryVars, loginVars, ret >>

\* context.storageState({ path }) settled: on to close(), in the try block
\* when it resolved and in the catch block when it rejected
CloseLoginState(p, ok) ==
  /\ pc[p] = "clState"
  /\ ok => loginContexts[loc[p].ctx].open
  /\ sessionFiles' = IF ok THEN WriteFile(getSessionPath(call[p].session),
                                           loginContexts[loc[p].ctx].state)
                           ELSE sessionFiles
  /\ saved' = IF ok THEN saved \cup {call[p].session} ELSE saved
  /\ pc' = [pc EXCEPT ![p] = IF ok THEN "clClose" ELSE "clCloseAgain"]
  /\ loc' = [loc EXCEPT ![p].err = ~ok]
  /\ UNCHANGED << hostVars, bridgeVars, now, poolVars, contexts, registryVars, loginContexts,
                  activeLoginSessions, call, ret, quiet >>

\* context.close() of the try block settled: delete and success when it
\* resolved, on to the catch block when it rejected
CloseLoginClose(p, ok) ==
  /\ pc[p] = "clClose"
  /\ IF ok
       THEN /\ loginContexts' = LoginContextsAfterClose(loc[p].ctx)
            /\ activeLoginSessions' = LoginDelete(call[p].session)
            /\ ret' = [ret EXCEPT ![p] = [NoRet EXCEPT !.context = loc[p].ctx,
                                            !.success = TRUE]]
            /\ pc' = [pc EXCEPT ![p] = "done"]
            /\ loc' = [loc EXCEPT ![p] = NoLoc]
       ELSE /\ pc' = [pc EXCEPT ![p] = "clCloseAgain"]
            /\ loc' = [loc EXCEPT ![p].err = TRUE]
            /\ UNCHANGED << loginContexts, activeLoginSessions, ret >>
  /\ UNCHANGED << hostVars, bridgeVars, now, saved, poolVars, contexts, registryVars, sessionFiles, call, quiet >>

\* as CloseLoginCloseAgain when the entry is left in the active set
CloseLoginCloseAgainKeepsEntry(p, ok) ==
  /\ pc[p] = "clCloseAgain"
  /\ loginContexts' = IF ok THEN LoginContextsAfterClose(loc[p].ctx) ELSE loginContexts
  /\ ret' = [ret EXCEPT ![p] = [NoRet EXCEPT !.context = loc[p].ctx]]
  /\ pc' = [pc EXCEPT ![p] = "done"]
  /\ loc' = [loc EXCEPT ![p] = NoLoc]
  /\ UNCHANGED << hostVars, bridgeVars, now, saved, poolVars, contexts, registryVars,
                  activeLoginSessions, sessionFiles, call, quiet >>

\* context.close() of the catch block settled inside its own try/catch:
\* delete and a failure result
CloseLoginCloseAgain(p, ok) ==
  /\ pc[p] = "clCloseAgain"
  /\ loginContexts' = IF ok THEN LoginContextsAfterClose(loc[p].ctx) ELSE loginContexts
  /\ activeLoginSessions' = LoginDelete(call[p].session)
  /\ ret' = [ret EXCEPT ![p] = [NoRet EXCEPT !.context = loc[p].ctx]]
  /\ pc' = [pc EXCEPT ![p] = "done"]
  /\ loc' = [loc EXCEPT ![p] = NoLoc]
  /\ UNCHANGED << hostVars, bridgeVars, now, saved, poolVars, contexts, registryVars, sessionFiles, call, quiet >>

(* ----------------------- External Browser Bridge ----------------------- *)

\* part_005:74
MCP_CONTEXT == <<"mcp-http">>

\* String.prototype.includes
Includes(s, sub) ==
  \E i \in 0..(Len(s) - Len(sub)) : SubSeq(s, i + 1, i + Len(sub)) = sub

\* connectedBrowser && connectedBrowser.isConnected()
CdpLive == connectedBrowser # Null /\ cdpBrowsers[connectedBrowser].connected

\* realChromeContext.pages().length: a closed context has no pages
ProfilePages(c) == IF profileContexts[c].open THEN profileContexts[c].pages ELSE 0

\* manager.ts:505-512  !urlPattern, or page.url().includes(urlPattern)
TabMatches(url, urlPattern) == urlPattern = NoPattern \/ Includes(url, urlPattern)

\* the tab at which the loops of getRealChromePage return; 0 when they run out
FirstTab(tabs, urlPattern) ==
  IF \E i \in 1..Len(tabs) : TabMatches(tabs[i], urlPattern)
    THEN CHOOSE i \in 1..Len(tabs) :
           /\ TabMatches(tabs[i], urlPattern)
           /\ \A j \in 1..(i - 1) : ~TabMatches(tabs[j], urlPattern)
    ELSE 0

\* getRealChromePage once connected by connection b: a tab is returned, or
\* contexts[0].newPage() is awaited
TabStage(p, urlPattern, b) ==
  LET i == FirstTab(chrome.tabs, urlPattern) IN
  IF i # 0
    THEN /\ ret' = [ret EXCEPT ![p] = [NoRet EXCEPT !.page = i, !.success = TRUE,
                                        !.source = "real-chrome-cdp"]]
         /\ pc' = [pc EXCEPT ![p] = "done"]
         /\ loc' = [loc EXCEPT ![p] = NoLoc]
    ELSE /\ pc' = [pc EXCEPT ![p] = "gpNewPage"]
         /\ loc' = [loc EXCEPT ![p] = [NoLoc EXCEPT !.br = b]]
         /\ UNCHANGED ret

\* getRealProfilePage with realChromeContext set: its first page is
\* returned, or realChromeContext.newPage() is awaited
ProfileStage(p) ==
  IF ProfilePages(realChromeContext) > 0
    THEN /\ ret' = [ret EXCEPT ![p] = [NoRet EXCEPT !.page = 1, !.success = TRUE,
                                        !.context = realChromeContext,
                                        !.source = "real-chrome-profile"]]
         /\ pc' = [pc EXCEPT ![p] = "done"]
         /\ loc' = [loc EXCEPT ![p] = NoLoc]
    ELSE /\ pc' = [pc EXCEPT ![p] = "rpNewPage"]
         /\ loc' = [loc EXCEPT ![p] = [NoLoc EXCEPT !.ctx = realChromeContext]]
         /\ UNCHANGED ret

\* as SharedPageFallback when the registry is tried before the profile
SharedPageFallbackRegistryFirst(p) ==
  IF call[p].session # NoSession /\ ~sessionExists(call[p].session)
    THEN /\ ret' = [ret EXCEPT ![p] = [NoRet EXCEPT !.error = TRUE]]
         /\ pc' = [pc EXCEPT ![p] = "done"]
         /\ loc' = [loc EXCEPT ![p] = NoLoc]
         /\ UNCHANGED << hostVars, now, saved, poolVars, contexts, registryVars, loginVars >>
    ELSE EnterGetOrCreatePage(p, MCP_CONTEXT, call[p].session, FALSE)

\* getSharedPage after getRealChromePage failed: getRealProfilePage, then
\* the session check and getOrCreatePage(MCP_CONTEXT, ...)
SharedPageFallback(p) ==
  IF realChromeContext # Null
    THEN /\ ProfileStage(p)
         /\ UNCHANGED << hostVars, now, saved, poolVars, contexts, registryVars, loginVars >>
    ELSE IF call[p].session # NoSession /\ ~sessionExists(call[p].session)
      THEN /\ ret' = [ret EXCEPT ![p] = [NoRet EXCEPT !.error = TRUE]]
           /\ pc' = [pc EXCEPT ![p] = "done"]
           /\ loc' = [loc EXCEPT ![p] = NoLoc]
           /\ UNCHANGED << hostVars, now, saved, poolVars, contexts, registryVars, loginVars >>
      ELSE EnterGetOrCreatePage(p, MCP_CONTEXT, call[p].session, FALSE)

\* getRealChromePage(urlPattern), first segment
GetRealChromePage(p, urlPattern) ==
  /\ pc[p] = "idle"
  /\ call' = [call EXCEPT ![p] = [NoCall EXCEPT !.op = "getRealChromePage",
                                  !.urlPattern = urlPattern]]
  /\ quiet' = QuietAfterStart(p)
  /\ IF CdpLive
       THEN TabStage(p, urlPattern, connectedBrowser)
       ELSE /\ pc' = [pc EXCEPT ![p] = "gpConnect"]
            /\ loc' = [loc EXCEPT ![p] = NoLoc]
            /\ UNCHANGED ret
  /\ UNCHANGED << hostVars, bridgeVars, now, saved, poolVars, contexts, registryVars, loginVars >>

\* getSharedPage(session), first segment: getRealChromePage() with no pattern
GetSharedPage(p, session) ==
  /\ pc[p] = "idle"
  /\ call' = [call EXCEPT ![p] = [NoCall EXCEPT !.op = "getSharedPage",
                                  !.contextId = MCP_CONTEXT, !.session = session,
                                  !.headless = FALSE]]
  /\ quiet' = QuietAfterStart(p)
  /\ IF CdpLive
       THEN TabStage(p, NoPattern, connectedBrowser)
       ELSE /\ pc' = [pc EXCEPT ![p] = "gpConnect"]
            /\ loc' = [loc EXCEPT ![p] = NoLoc]
            /\ UNCHANGED ret
  /\ UNCHANGED << hostVars, bridgeVars, now, saved, poolVars, contexts, registryVars, loginVars >>

\* connectOverCDP(CDP_ENDPOINT, { timeout }) resolved: connectedBrowser is
\* assigned and the tabs are searched
GpConnectOk(p) ==
  /\ pc[p] = "gpConnect"
  /\ chrome.up
  /\ Len(cdpBrowsers) < MaxConnections
  /\ cdpBrowsers' = Append(cdpBrowsers, [connected |-> TRUE])
  /\ connectedBrowser' = Len(cdpBrowsers) + 1
  /\ TabStage(p, call[p].urlPattern, Len(cdpBrowsers) + 1)
  /\ UNCHANGED << chrome, profileContexts, realChromeContext, hostVars, now, saved, poolVars,
                  contexts, registryVars, loginVars, call, quiet >>

\* connectOverCDP rejected or timed out: getRealChromePage returns a
\* failure; getSharedPage goes on to its other sources
GpConnectFail(p) ==
  /\ pc[p] = "gpConnect"
  /\ IF call[p].op = "getSharedPage"
       THEN SharedPageFallback(p)
       ELSE /\ ret' = [ret EXCEPT ![p] = NoRet]
            /\ pc' = [pc EXCEPT ![p] = "done"]
            /\ loc' = [loc EXCEPT ![p] = NoLoc]
            /\ UNCHANGED << hostVars, now, saved, poolVars, contexts, registryVars, loginVars >>
  /\ UNCHANGED << bridgeVars, call, quiet >>

\* contexts[0].newPage() settled, outside any try
GpNewPage(p, ok) ==
  /\ pc[p] = "gpNewPage"
  /\ ok => cdpBrowsers[loc[p].br].connected /\ Len(chrome.tabs) < MaxTabs
  /\ IF ok
       THEN /\ chrome' = [chrome EXCEPT !.tabs = Append(@, BlankUrl)]
            /\ ret' = [ret EXCEPT ![p] = [NoRet EXCEPT !.page = Len(chrome.tabs) + 1,
                                           !.success = TRUE,
                                           !.source = "real-chrome-cdp"]]
            /\ pc' = [pc EXCEPT ![p] = "done"]
       ELSE /\ pc' = [pc EXCEPT ![p] = "threw"]
            /\ UNCHANGED << chrome, ret >>
  /\ loc' = [loc EXCEPT ![p] = NoLoc]
  /\ UNCHANGED << cdpBrowsers, connectedBrowser, profileContexts, realChromeContext,
                  hostVars, now, saved, poolVars, contexts, registryVars, loginVars, call, quiet >>

\* getRealProfilePage(), first segment
GetRealProfilePage(p) ==
  /\ pc[p] = "idle"
  /\ call' = [call EXCEPT ![p] = [NoCall EXCEPT !.op = "getRealProfilePage"]]
  /\ quiet' = QuietAfterStart(p)
  /\ IF realChromeContext # Null
       THEN ProfileStage(p)
       ELSE /\ ret' = [ret EXCEPT ![p] = NoRet]
            /\ pc' = [pc EXCEPT ![p] = "done"]
            /\ loc' = [loc EXCEPT ![p] = NoLoc]
  /\ UNCHANGED << hostVars, bridgeVars, now, saved, poolVars, contexts, registryVars, loginVars >>

\* realChromeContext.newPage() settled, outside any try
RpNewPage(p, ok) ==
  /\ pc[p] = "rpNewPage"
  /\ ok => profileContexts[loc[p].ctx].open
  /\ IF ok
       THEN /\ profileContexts' = [profileContexts EXCEPT ![loc[p].ctx].pages = @ + 1]
            /\ ret' = [ret EXCEPT ![p] = [NoRet EXCEPT
                         !.page = profileContexts[loc[p].ctx].pages + 1,
                         !.context = loc[p].ctx, !.success = TRUE,
                         !.source = "real-chrome-profile"]]
            /\ pc' = [pc EXCEPT ![p] = "done"]
       ELSE /\ pc' = [pc EXCEPT ![p] = "threw"]
            /\ UNCHANGED << profileContexts, ret >>
  /\ loc' = [loc EXCEPT ![p] = NoLoc]
  /\ UNCHANGED << chrome, cdpBrowsers, connectedBrowser, realChromeContext,
                  hostVars, now, saved, poolVars, contexts, registryVars, loginVars, call, quiet >>

\* error.message of a refused connection: 'connect ECONNREFUSED ...'
Refused == << "c", "o", "n", "n", "e", "c", "t", " ",
              "E", "C", "O", "N", "N", "R", "E", "F", "U", "S", "E", "D" >>

\* error.message of an endpoint that accepts the connection and never
\* answers: 'browserType.connectOverCDP: Timeout ...', cut to its call name
TimedOut == << "c", "o", "n", "n", "e", "c", "t", "O", "v", "e", "r", "C", "D", "P" >>

\* error.message of a page that went away: '... has been closed'
TargetClosed == << "c", "l", "o", "s", "e", "d" >>

\* the errors connectOverCDP rejects with, and those of page.title()
ConnectErrors == { Refused, TimedOut }
TitleErrors == { TargetClosed }

\* manager.ts:462-476  the catch block of connectToRealChrome: the
\* instructions when the message includes 'ECONNREFUSED' or 'connect', the
\* generic 'Failed to connect: ...' otherwise
ConnectFailure(errorMessage) ==
  [NoRet EXCEPT
     !.cause = errorMessage,
     !.message = IF \/ Includes(errorMessage, << "E", "C", "O", "N", "N", "R", "E", "F",
                                                 "U", "S", "E", "D" >>)
                    \/ Includes(errorMessage, << "c", "o", "n", "n", "e", "c", "t" >>)
                   THEN "instructions" ELSE "generic"]

\* connectToRealChrome(), first segment: connectOverCDP is awaited
ConnectToRealChrome(p) ==
  /\ pc[p] = "idle"
  /\ call' = [call EXCEPT ![p] = [NoCall EXCEPT !.op = "connectToRealChrome"]]
  /\ quiet' = QuietAfterStart(p)
  /\ pc' = [pc EXCEPT ![p] = "rcConnect"]
  /\ loc' = [loc EXCEPT ![p] = NoLoc]
  /\ UNCHANGED << hostVars, bridgeVars, now, saved, poolVars, contexts, registryVars, loginVars,
                  ret >>

\* connectOverCDP resolved: connectedBrowser is assigned, whatever it held;
\* the titles of the tabs are awaited one by one
RcConnectOk(p) ==
  /\ pc[p] = "rcConnect"
  /\ chrome.up
  /\ Len(cdpBrowsers) < MaxConnections
  /\ cdpBrowsers' = Append(cdpBrowsers, [connected |-> TRUE])
  /\ connectedBrowser' = Len(cdpBrowsers) + 1
  /\ IF Len(chrome.tabs) = 0
       THEN /\ ret' = [ret EXCEPT ![p] = [NoRet EXCEPT !.success = TRUE,
                                                        !.message = "connected"]]
            /\ pc' = [pc EXCEPT ![p] = "done"]
       ELSE /\ pc' = [pc EXCEPT ![p] = "rcTitles"]
            /\ UNCHANGED ret
  /\ UNCHANGED << chrome, profileContexts, realChromeContext, hostVars, now, saved, poolVars,
                  contexts, registryVars, loginVars, call, loc, quiet >>

\* connectOverCDP rejected inside try: a failure result; a connection is
\* refused only when nothing listens on the endpoint
RcConnectFail(p) ==
  /\ pc[p] = "rcConnect"
  /\ \E e \in ConnectErrors :
       /\ e = Refused => ~chrome.up
       /\ ret' = [ret EXCEPT ![p] = ConnectFailure(e)]
  /\ pc' = [pc EXCEPT ![p] = "done"]
  /\ UNCHANGED << hostVars, bridgeVars, now, saved, poolVars, contexts, registryVars, loginVars,
                  call, loc, quiet >>

\* every page.title() resolved, or one rejected inside try
RcTitles(p, ok) ==
  /\ pc[p] = "rcTitles"
  /\ IF ok
       THEN ret' = [ret EXCEPT ![p] = [NoRet EXCEPT !.success = TRUE,
                                                    !.message = "connected"]]
       ELSE \E e \in TitleErrors : ret' = [ret EXCEPT ![p] = ConnectFailure(e)]
  /\ pc' = [pc EXCEPT ![p] = "done"]
  /\ UNCHANGED << hostVars, bridgeVars, now, saved, poolVars, contexts, registryVars, loginVars,
                  call, loc, quiet >>

\* manager.ts:551-563  SingletonLock, SingletonSocket and SingletonCookie
\* are unlinked from the profile directory: no lock file is left
RemoveLockFiles == FALSE

\* launchRealChromeProfile(), first segment: an existing context is closed
\* first, otherwise the lock files are removed and launchPersistentContext
\* is awaited at once
LaunchRealChromeProfile(p) ==
  /\ pc[p] = "idle"
  /\ call' = [call EXCEPT ![p] = [NoCall EXCEPT !.op = "launchRealChromeProfile"]]
  /\ quiet' = QuietAfterStart(p)
  /\ IF realChromeContext # Null
       THEN /\ pc' = [pc EXCEPT ![p] = "lpClose"]
            /\ loc' = [loc EXCEPT ![p] = [NoLoc EXCEPT !.existing = realChromeContext]]
            /\ UNCHANGED profileLock
       ELSE /\ pc' = [pc EXCEPT ![p] = "lpLaunch"]
            /\ loc' = [loc EXCEPT ![p] = NoLoc]
            /\ profileLock' = RemoveLockFiles
  /\ UNCHANGED << clients, mcpVars, eventVars, bridgeVars, now, saved, poolVars, contexts, registryVars, loginVars,
                  ret >>

\* realChromeContext.close() settled inside try/catch; realChromeContext =
\* null, the lock files are removed and launchPersistentContext is awaited
LpClose(p, ok) ==
  /\ pc[p] = "lpClose"
  /\ profileContexts' = IF ok THEN [profileContexts EXCEPT ![loc[p].existing] =
                                                                [open |-> FALSE, pages |-> 0]]
                              ELSE profileContexts
  /\ realChromeContext' = Null
  /\ profileLock' = RemoveLockFiles
  /\ pc' = [pc EXCEPT ![p] = "lpLaunch"]
  /\ UNCHANGED << chrome, cdpBrowsers, connectedBrowser, clients, mcpVars, eventVars, now, saved, poolVars,
                  contexts, registryVars, loginVars, call, loc, ret, quiet >>

\* launchPersistentContext resolved with n pages: the browser that now
\* runs on the profile holds its lock files and realChromeContext is
\* assigned; with no page, newPage is awaited
LpLaunchOk(p, n) ==
  /\ pc[p] = "lpLaunch"
  /\ Len(profileContexts) < MaxProfiles
  /\ profileContexts' = Append(profileContexts, [open |-> TRUE, pages |-> n])
  /\ realChromeContext' = Len(profileContexts) + 1
  /\ profileLock' = TRUE
  /\ loc' = [loc EXCEPT ![p].ctx = Len(profileContexts) + 1]
  /\ IF n = 0
       THEN /\ pc' = [pc EXCEPT ![p] = "lpNewPage"]
            /\ UNCHANGED ret
       ELSE /\ pc' = [pc EXCEPT ![p] = "done"]
            /\ ret' = [ret EXCEPT ![p] = [NoRet EXCEPT !.success = TRUE,
                                           !.context = Len(profileContexts) + 1]]
  /\ UNCHANGED << chrome, cdpBrowsers, connectedBrowser, clients, mcpVars, eventVars, now, saved, poolVars,
                  contexts, registryVars, loginVars, call, quiet >>

\* launchPersistentContext rejected inside try: a failure result
LpLaunchFail(p) ==
  /\ pc[p] = "lpLaunch"
  /\ ret' = [ret EXCEPT ![p] = NoRet]
  /\ pc' = [pc EXCEPT ![p] = "done"]
  /\ UNCHANGED << hostVars, bridgeVars, now, saved, poolVars, contexts, registryVars, loginVars,
                  call, loc, quiet >>

\* realChromeContext.newPage() settled inside try; the page count is then
\* read from realChromeContext, which throws inside try when it is null
LpNewPage(p, ok) ==
  /\ pc[p] = "lpNewPage"
  /\ ok => profileContexts[loc[p].ctx].open
  /\ profileContexts' = IF ok THEN [profileContexts EXCEPT ![loc[p].ctx].pages = @ + 1]
                              ELSE profileContexts
  /\ ret' = [ret EXCEPT ![p] = [NoRet EXCEPT
                !.success = (ok /\ realChromeContext # Null), !.context = loc[p].ctx]]
  /\ pc' = [pc EXCEPT ![p] = "done"]
  /\ UNCHANGED << chrome, cdpBrowsers, connectedBrowser, realChromeContext, hostVars, now, saved,
                  poolVars, contexts, registryVars, loginVars, call, loc, quiet >>

\* the URLs of the pages of profile context c
ProfileTabs(c) == [i \in 1..ProfilePages(c) |-> BlankUrl]

\* listAllTabs(), first segment: the connection when it is connected, else
\* the profile context when the slot is set, else a failure; with tabs to
\* list, the title of the first one is awaited
ListAllTabs(p) ==
  LET src == IF CdpLive THEN "real-chrome-cdp"
             ELSE IF realChromeContext # Null THEN "real-chrome-profile"
             ELSE "none"
      tabs == IF src = "real-chrome-cdp" THEN chrome.tabs
              ELSE IF src = "real-chrome-profile" THEN ProfileTabs(realChromeContext)
              ELSE <<>>
  IN
  /\ pc[p] = "idle"
  /\ call' = [call EXCEPT ![p] = [NoCall EXCEPT !.op = "listAllTabs"]]
  /\ quiet' = QuietAfterStart(p)
  /\ loc' = [loc EXCEPT ![p] = [NoLoc EXCEPT !.br = connectedBrowser,
                                              !.ctx = realChromeContext]]
  /\ ret' = [ret EXCEPT ![p] = [NoRet EXCEPT !.source = src, !.tabs = tabs,
                                              !.success = (src # "none" /\ tabs = <<>>)]]
  /\ pc' = [pc EXCEPT ![p] = IF tabs = <<>> THEN "done" ELSE "ltTitles"]
  /\ UNCHANGED << hostVars, bridgeVars, now, saved, poolVars, contexts, registryVars,
                  loginVars >>

\* every page.title() resolved, or one rejected, outside any try; the title
\* of a page that is gone rejects
LtTitles(p, ok) ==
  /\ pc[p] = "ltTitles"
  /\ ok => IF ret[p].source = "real-chrome-cdp"
             THEN cdpBrowsers[loc[p].br].connected
             ELSE profileContexts[loc[p].ctx].open
  /\ IF ok
       THEN /\ ret' = [ret EXCEPT ![p].success = TRUE]
            /\ pc' = [pc EXCEPT ![p] = "done"]
       ELSE /\ ret' = [ret EXCEPT ![p] = NoRet]
            /\ pc' = [pc EXCEPT ![p] = "threw"]
  /\ loc' = [loc EXCEPT ![p] = NoLoc]
  /\ UNCHANGED << hostVars, bridgeVars, now, saved, poolVars, contexts, registryVars,
                  loginVars, call, quiet >>

\* manager.ts:418-432  getStatus()
getStatus ==
  [headlessConnected |-> IsConnected(headlessBrowser),
   headedConnected |-> IsConnected(headedBrowser),
   activeContexts |-> Len(activeContexts),
   realChromeConnected |-> realChromeContext # Null,
   cdpConnected |-> CdpLive]

(* ------------------------ Session Store calls -------------------------- *)

\* deleteSession(name): unlink the file when it exists; the result says so
DeleteSession(p, name) ==
  LET f == getSessionPath(name) IN
  /\ pc[p] = "idle"
  /\ call' = [call EXCEPT ![p] = [NoCall EXCEPT !.op = "deleteSession",
                                  !.session = name]]
  /\ quiet' = QuietAfterStart(p)
  /\ sessionFiles' = IF sessionFiles[f].exists THEN UnlinkFile(f) ELSE sessionFiles
  /\ ret' = [ret EXCEPT ![p] = [NoRet EXCEPT !.success = sessionFiles[f].exists]]
  /\ pc' = [pc EXCEPT ![p] = "done"]
  /\ loc' = [loc EXCEPT ![p] = NoLoc]
  /\ UNCHANGED << hostVars, bridgeVars, now, saved, poolVars, contexts, registryVars,
                  loginContexts, activeLoginSessions >>

\* touchSession(name): set the file times to now when the file exists
TouchSession(p, name) ==
  /\ pc[p] = "idle"
  /\ call' = [call EXCEPT ![p] = [NoCall EXCEPT !.op = "touchSession",
                                  !.session = name]]
  /\ quiet' = QuietAfterStart(p)
  /\ sessionFiles' = TouchFile(getSessionPath(name))
  /\ pc' = [pc EXCEPT ![p] = "done"]
  /\ loc' = [loc EXCEPT ![p] = NoLoc]
  /\ UNCHANGED << hostVars, bridgeVars, now, saved, poolVars, contexts, registryVars,
                  loginContexts, activeLoginSessions, ret >>

\* listSessions() on the files of the sessions directory: the name is the
\* file name without its suffix, createdAt the birth time, lastUsed the
\* modification time
listSessions ==
  { [name |-> SubSeq(f[2], 1, Len(f[2]) - 1),
     createdAt |-> sessionFiles[f].createdAt,
     lastUsed |-> sessionFiles[f].lastUsed] :
       f \in { g \in SessionPaths : Len(g) = 2 /\ sessionFiles[g].exists } }

(* ------------------------- WebSocket facade ---------------------------- *)

\* part_003:288  contextId = `ctx-${clientId}`, a different one per client
WsContextId(c) == IF c = 1 THEN <<"a">> ELSE <<"c">>

\* the first synchronous segment of closeContext(contextId): the loop
\* stops at the first matching entry, or the call completes
CloseContextEntry(contextId) ==
  LET j == NextMatch(activeContexts, 0, contextId) IN
  IF j # 0 THEN [pc |-> "ccClose", loc |-> AtEntry(NoLoc, activeContexts, j)]
           ELSE [pc |-> "done", loc |-> NoLoc]

\* closeContext(client.contextId) is called for every client of `gone`,
\* each call by the caller that `by` gives it
TeardownCalls(gone, by, via) ==
  /\ \A c \in gone : pc[by[c]] = "idle"
  /\ \A c, d \in gone : by[c] = by[d] => c = d
  /\ LET Of(p) == CHOOSE c \in gone : by[c] = p
         Busy == { by[c] : c \in gone }
     IN
     /\ call' = [p \in Procs |->
                   IF p \in Busy
                     THEN [NoCall EXCEPT !.op = "closeContext",
                                         !.contextId = WsContextId(Of(p)),
                                         !.via = via, !.client = Of(p)]
                     ELSE call[p]]
     /\ pc' = [p \in Procs |->
                 IF p \in Busy THEN CloseContextEntry(WsContextId(Of(p))).pc ELSE pc[p]]
     /\ loc' = [p \in Procs |->
                  IF p \in Busy THEN CloseContextEntry(WsContextId(Of(p))).loc ELSE loc[p]]
     /\ quiet' = IF gone = {} THEN quiet ELSE [q \in Procs |-> FALSE]

\* part_003:286-298  wss.on('connection'): the client is put in the table
Connection(c) ==
  /\ clients[c].sock = "none"
  /\ clients' = [clients EXCEPT ![c] = [sock |-> "open", listed |-> TRUE,
                                        isAlive |-> TRUE, ping |-> FALSE,
                                        pong |-> FALSE]]
  /\ UNCHANGED << profileLock, mcpVars, eventVars, bridgeVars, now, saved, poolVars, contexts, registryVars,
                  loginVars, pc, call, loc, ret, quiet >>

\* as Heartbeat when the context of a terminated client is left alone
HeartbeatNoTeardown ==
  LET dead == { c \in WsClients : clients[c].listed /\ ~clients[c].isAlive } IN
  /\ \E c \in WsClients : clients[c].listed
  /\ clients' = [c \in WsClients |->
                   IF c \in dead
                     THEN [sock |-> IF clients[c].sock = "open" THEN "terminated"
                                                                ELSE clients[c].sock,
                           listed |-> FALSE, isAlive |-> FALSE, ping |-> FALSE,
                           pong |-> FALSE]
                   ELSE IF clients[c].listed
                     THEN [clients[c] EXCEPT !.isAlive = FALSE,
                                             !.ping = (clients[c].sock = "open")]
                   ELSE clients[c]]
  /\ UNCHANGED << pc, call, loc, quiet >>
  /\ UNCHANGED << profileLock, mcpVars, eventVars, bridgeVars, now, saved, poolVars, contexts, registryVars,
                  loginVars, ret >>

\* part_003:268-280  one tick of the heartbeat interval: a client that is
\* not alive is terminated, deleted and closeContext is called for it; every
\* other client is marked not alive and pinged
Heartbeat ==
  LET dead == { c \in WsClients : clients[c].listed /\ ~clients[c].isAlive } IN
  /\ \E c \in WsClients : clients[c].listed
  /\ clients' = [c \in WsClients |->
                   IF c \in dead
                     THEN [sock |-> IF clients[c].sock = "open" THEN "terminated"
                                                                ELSE clients[c].sock,
                           listed |-> FALSE, isAlive |-> FALSE, ping |-> FALSE,
                           pong |-> FALSE]
                   ELSE IF clients[c].listed
                     THEN [clients[c] EXCEPT !.isAlive = FALSE,
                                             !.ping = (clients[c].sock = "open")]
                   ELSE clients[c]]
  /\ \E by \in [dead -> Procs] : TeardownCalls(dead, by, "heartbeat")
  /\ UNCHANGED << profileLock, mcpVars, eventVars, bridgeVars, now, saved, poolVars, contexts, registryVars,
                  loginVars, ret >>

\* the peer answers the ping it received with a pong
PeerPong(c) ==
  /\ clients[c].sock = "open"
  /\ clients[c].ping
  /\ clients' = [clients EXCEPT ![c].ping = FALSE, ![c].pong = TRUE]
  /\ UNCHANGED << profileLock, mcpVars, eventVars, bridgeVars, now, saved, poolVars, contexts, registryVars,
                  loginVars, pc, call, loc, ret, quiet >>

\* part_003:307-309  ws.on('pong')
OnPong(c) ==
  /\ clients[c].sock = "open"
  /\ clients[c].pong
  /\ clients' = [clients EXCEPT ![c].isAlive = TRUE, ![c].pong = FALSE]
  /\ UNCHANGED << profileLock, mcpVars, eventVars, bridgeVars, now, saved, poolVars, contexts, registryVars,
                  loginVars, pc, call, loc, ret, quiet >>

\* part_003:321-325  ws.on('close'), after the peer went away or after
\* terminate(): the client is deleted and closeContext is called for it
OnClose(c, p) ==
  /\ clients[c].sock \in {"open", "terminated"}
  /\ clients' = [clients EXCEPT ![c] = [sock |-> "closed", listed |-> FALSE,
                                        isAlive |-> clients[c].isAlive,
                                        ping |-> FALSE, pong |-> FALSE]]
  /\ TeardownCalls({c}, [d \in {c} |-> p], "close")
  /\ UNCHANGED << profileLock, mcpVars, eventVars, bridgeVars, now, saved, poolVars, contexts, registryVars,
                  loginVars, ret >>

\* The message types of handleMessage: navigate, which checks the session;
\* evaluate, screenshot, click, type and content, which have the shape of
\* evaluate; close.
WsTypes == { "navigate", "evaluate", "close" }

\* part_003:311-319 and 40-259  ws.on('message'): handleMessage up to its
\* first await
OnMessage(c, p, type, session) ==
  /\ clients[c].sock = "open"
  /\ pc[p] = "idle"
  /\ type = "close" => session = NoSession
  /\ call' = [call EXCEPT ![p] = [NoCall EXCEPT
                !.op = IF type = "close" THEN "closeContext" ELSE "getOrCreatePage",
                !.contextId = WsContextId(c), !.session = session,
                !.via = "ws", !.client = c, !.type = type]]
  /\ quiet' = QuietAfterStart(p)
  /\ IF type = "close"
       THEN /\ pc' = [pc EXCEPT ![p] = CloseContextEntry(WsContextId(c)).pc]
            /\ loc' = [loc EXCEPT ![p] = CloseContextEntry(WsContextId(c)).loc]
            /\ UNCHANGED << hostVars, now, saved, poolVars, contexts, registryVars,
                            loginVars, ret >>
       ELSE IF type = "navigate" /\ session # NoSession /\ ~sessionExists(session)
         THEN /\ pc' = [pc EXCEPT ![p] = "done"]
              /\ ret' = [ret EXCEPT ![p] = [NoRet EXCEPT !.error = TRUE]]
              /\ loc' = [loc EXCEPT ![p] = NoLoc]
              /\ UNCHANGED << hostVars, now, saved, poolVars, contexts, registryVars,
                              loginVars >>
         ELSE EnterGetOrCreatePage(p, WsContextId(c), session, TRUE)
  /\ UNCHANGED bridgeVars

(* ---------------------------- REST facade ------------------------------ *)

\* part_002:96-260  navigate, screenshot, evaluate, click, type and
\* getContent up to the first await: the session check, then getOrCreatePage
RestRequest(p, contextId, session, headless) ==
  /\ pc[p] = "idle"
  /\ call' = [call EXCEPT ![p] = [NoCall EXCEPT !.op = "getOrCreatePage",
                                  !.contextId = contextId, !.session = session,
                                  !.headless = headless, !.via = "rest"]]
  /\ quiet' = QuietAfterStart(p)
  /\ IF session # NoSession /\ ~sessionExists(session)
       THEN /\ pc' = [pc EXCEPT ![p] = "done"]
            /\ ret' = [ret EXCEPT ![p] = [NoRet EXCEPT !.error = TRUE]]
            /\ loc' = [loc EXCEPT ![p] = NoLoc]
            /\ UNCHANGED << hostVars, now, saved, poolVars, contexts, registryVars,
                            loginVars >>
       ELSE EnterGetOrCreatePage(p, contextId, session, headless)
  /\ UNCHANGED bridgeVars

(* ---------------------------- environment ------------------------------ *)

\* the user quits Chrome: every connection to it is disconnected
ChromeQuits ==
  /\ chrome.up
  /\ chrome' = [up |-> FALSE, tabs |-> <<>>]
  /\ cdpBrowsers' = [i \in DOMAIN cdpBrowsers |-> [connected |-> FALSE]]
  /\ UNCHANGED << connectedBrowser, profileContexts, realChromeContext, hostVars, now, saved,
                  poolVars, contexts, registryVars, loginVars, pc, call, loc, ret, quiet >>

\* the user closes the window of the browser launched on the profile: the
\* context is closed, and nothing in the manager is told
ProfileWindowClosed(c) ==
  /\ c \in DOMAIN profileContexts
  /\ profileContexts[c].open
  /\ profileContexts' = [profileContexts EXCEPT ![c] = [open |-> FALSE, pages |-> 0]]
  /\ UNCHANGED << chrome, cdpBrowsers, connectedBrowser, realChromeContext, hostVars,
                  now, saved, poolVars, contexts, registryVars, loginVars,
                  pc, call, loc, ret, quiet >>

\* a millisecond passes
Tick ==
  /\ now < MaxClock
  /\ now' = now + 1
  /\ UNCHANGED << hostVars, bridgeVars, saved, poolVars, contexts, registryVars, loginVars,
                  pc, call, loc, ret, quiet >>

\* a pooled browser process crashes or is killed
BrowserCrash(b) ==
  /\ b \in DOMAIN browsers
  /\ browsers[b].connected
  /\ browsers' = BrowsersAfterClose(b)
  /\ contexts' = ContextsAfterBrowserGone(contexts, b)
  /\ UNCHANGED << hostVars, bridgeVars, now, saved, headlessBrowser, headedBrowser, registryVars, loginVars,
                  pc, call, loc, ret, quiet >>

\* the primary page of a context is closed (window.close, page crash)
PageClosed(c) ==
  /\ c \in DOMAIN contexts
  /\ contexts[c].pageOpen
  /\ contexts' = [contexts EXCEPT ![c].pageOpen = FALSE]
  /\ UNCHANGED << hostVars, bridgeVars, now, saved, poolVars, registryVars, loginVars, pc, call, loc, ret, quiet >>

\* the user logs in inside the visible login window: the site sets a
\* cookie in the persistent context
UserLogsIn(c, ck) ==
  /\ c \in DOMAIN loginContexts
  /\ loginContexts[c].open
  /\ ck \notin loginContexts[c].state
  /\ loginContexts' = [loginContexts EXCEPT ![c].state = @ \cup {ck}]
  /\ UNCHANGED << hostVars, bridgeVars, now, saved, poolVars, contexts, registryVars,
                  activeLoginSessions, sessionFiles, pc, call, loc, ret, quiet >>

\* the caller takes the result of a settled call
Return(p) ==
  /\ pc[p] \in {"done", "threw"}
  /\ pc' = [pc EXCEPT ![p] = "idle"]
  /\ call' = [call EXCEPT ![p] = NoCall]
  /\ loc' = [loc EXCEPT ![p] = NoLoc]
  /\ ret' = [ret EXCEPT ![p] = NoRet]
  /\ quiet' = [quiet EXCEPT ![p] = FALSE]
  /\ UNCHANGED << hostVars, bridgeVars, now, saved, poolVars, contexts, registryVars, loginVars >>

(* --------------------------- specification ----------------------------- *)

InitManager ==
  /\ browsers = <<>>
  /\ contexts = <<>>
  /\ headlessBrowser = Null
  /\ headedBrowser = Null
  /\ activeContexts = <<>>
  /\ activePages = <<>>
  /\ loginContexts = <<>>
  /\ activeLoginSessions = [n \in SessionNames |-> Null]
  /\ cdpBrowsers = <<>>
  /\ connectedBrowser = Null
  /\ profileContexts = <<>>
  /\ realChromeContext = Null
  /\ clients = [c \in WsClients |-> NoClient]
  /\ transports = <<>>
  /\ mcpTransports = <<>>
  /\ loadListeners = <<>>
  /\ pageLoads = NoLoad
  /\ pc = [p \in Procs |-> "idle"]
  /\ call = [p \in Procs |-> NoCall]
  /\ loc = [p \in Procs |-> NoLoc]
  /\ ret = [p \in Procs |-> NoRet]
  /\ quiet = [p \in Procs |-> FALSE]

\* the process starts on an empty sessions directory
Init ==
  /\ InitManager
  /\ profileLock = FALSE
  /\ chrome = [up |-> FALSE, tabs |-> <<>>]
  /\ sessionFiles = [f \in SessionPaths |-> NoFile]
  /\ now = 0
  /\ saved = {}

\* the sessions directory as earlier runs of the server may have left it:
\* a file per login name, written before this process started
StoredFiles ==
  { [exists |-> TRUE, state |-> st, createdAt |-> 0, lastUsed |-> 0] :
      st \in SUBSET Cookies } \cup { NoFile }

\* the process starts on a sessions directory written by earlier runs
StoreInit ==
  /\ InitManager
  /\ profileLock = FALSE
  /\ chrome = [up |-> FALSE, tabs |-> <<>>]
  /\ now = 1
  /\ sessionFiles \in { fs \in [SessionPaths -> StoredFiles] :
                          \A f \in SessionPaths :
                            fs[f].exists => \E n \in SessionNames : f = getSessionPath(n) }
  /\ saved = { n \in SessionNames : sessionFiles[getSessionPath(n)].exists }

GetOrCreatePageNext(K, H) ==
  \/ \E p \in Procs, k \in K, h \in H : GetOrCreatePage(p, k[1], k[2], h)
  \/ \E p \in Procs : LaunchOk(p)
  \/ \E p \in Procs : LaunchFail(p)
  \/ \E p \in Procs : NewContextOk(p)
  \/ \E p \in Procs : NewContextFail(p)
  \/ \E p \in Procs : AddInitScriptOk(p)
  \/ \E p \in Procs : AddInitScriptFail(p)
  \/ \E p \in Procs : NewPageOk(p)
  \/ \E p \in Procs : NewPageFail(p)
  \/ \E p \in Procs : Return(p)

CloseContextNext(K) ==
  \/ \E p \in Procs, k \in K : CloseContext(p, k[1], k[2])
  \/ \E p \in Procs : CloseContextCloseOk(p)
  \/ \E p \in Procs : CloseContextCloseFail(p)

CloseAllNext ==
  \/ \E p \in Procs : CloseAll(p)
  \/ \E p \in Procs, ok \in BOOLEAN : CloseAllClose(p, ok)
  \/ \E p \in Procs, ok \in BOOLEAN : CloseAllHeadless(p, ok)
  \/ \E p \in Procs, ok \in BOOLEAN : CloseAllHeaded(p, ok)

\* the registry under colliding keys: getOrCreatePage and closeContext
RegistryNext ==
  \/ GetOrCreatePageNext(RegistryKeys, {TRUE})
  \/ CloseContextNext(RegistryKeys)
  \/ \E c \in 1..MaxContexts : PageClosed(c)

RegistrySpec == Init /\ [][RegistryNext]_vars

\* the pool in both modes: acquisitions and browsers that crash
PoolNext ==
  \/ GetOrCreatePageNext(PoolKeys, BOOLEAN)
  \/ \E b \in 1..MaxBrowsers : BrowserCrash(b)

PoolSpec == Init /\ [][PoolNext]_vars

\* shutdown: closeAll against calls in both modes, close() may reject
ShutdownNext ==
  \/ GetOrCreatePageNext(PoolKeys, BOOLEAN)
  \/ CloseAllNext

ShutdownSpec == Init /\ [][ShutdownNext]_vars

\* shutdown with an engine whose close() calls all resolve
CleanShutdownNext ==
  \/ GetOrCreatePageNext(PoolKeys, BOOLEAN)
  \/ \E p \in Procs : CloseAll(p)
  \/ \E p \in Procs : CloseAllClose(p, TRUE)
  \/ \E p \in Procs : CloseAllHeadless(p, TRUE)
  \/ \E p \in Procs : CloseAllHeaded(p, TRUE)

CleanShutdownSpec == Init /\ [][CleanShutdownNext]_vars

LoginOps(N) ==
  \/ \E p \in Procs, n \in N : StartLoginSession(p, n)
  \/ \E p \in Procs, ok \in BOOLEAN : StartLoginPriorClosed(p, ok)
  \/ \E p \in Procs : StartLoginLaunchOk(p)
  \/ \E p \in Procs : StartLoginInitOk(p)
  \/ \E p \in Procs : StartLoginNewPageOk(p)
  \/ \E p \in Procs : StartLoginThrows(p)
  \/ \E p \in Procs : StartLoginGotoOk(p)
  \/ \E p \in Procs : StartLoginGotoFail(p)
  \/ \E p \in Procs, ok \in BOOLEAN : StartLoginAbandon(p, ok)
  \/ \E p \in Procs, n \in N : SaveLoginSession(p, n)
  \/ \E p \in Procs, ok \in BOOLEAN : SaveLoginState(p, ok)
  \/ \E p \in Procs, n \in N : CloseLoginSession(p, n)
  \/ \E p \in Procs, ok \in BOOLEAN : CloseLoginState(p, ok)
  \/ \E p \in Procs, ok \in BOOLEAN : CloseLoginClose(p, ok)
  \/ \E p \in Procs, ok \in BOOLEAN : CloseLoginCloseAgain(p, ok)
  \/ \E p \in Procs : Return(p)

\* the login coordinator: start, save and close under every interleaving
LoginNext == LoginOps(SessionNames)

LoginSpec == Init /\ [][LoginNext]_vars

\* one login name, with a user who logs in inside the login window
SaveNext ==
  \/ LoginOps({ <<"b">> })
  \/ \E c \in 1..MaxLogins, ck \in Cookies : UserLogsIn(c, ck)

SaveSpec == Init /\ [][SaveNext]_vars

\* the session store written by the login coordinator and deleted from
StoreNext ==
  \/ SaveNext
  \/ \E p \in Procs, n \in StoreNames : DeleteSession(p, n)

StoreSpec == Init /\ [][StoreNext]_vars

\* contexts seeded from the sessions of earlier runs, against deletes and
\* touches, with a clock
SeedNext ==
  \/ GetOrCreatePageNext(SeedKeys, {TRUE})
  \/ \E p \in Procs : ReadStorageState(p)
  \/ \E p \in Procs, n \in SeedNames : DeleteSession(p, n)
  \/ \E p \in Procs, n \in SeedNames : TouchSession(p, n)
  \/ Tick

SeedSpec == StoreInit /\ [][SeedNext]_vars

\* the process starts while the user's Chrome may be running with remote
\* debugging, with some tabs open
BridgeInit ==
  /\ InitManager
  /\ profileLock = FALSE
  /\ chrome \in { [up |-> FALSE, tabs |-> <<>>] }
                \cup { [up |-> TRUE, tabs |-> t] : t \in ChromeTabs }
  /\ sessionFiles = [f \in SessionPaths |-> NoFile]
  /\ now = 0
  /\ saved = {}

\* the two attachment modes: connect, tab lookup and profile launch
AttachNext ==
  \/ \E p \in Procs, u \in Patterns : GetRealChromePage(p, u)
  \/ \E p \in Procs : GpConnectOk(p)
  \/ \E p \in Procs : GpConnectFail(p)
  \/ \E p \in Procs, ok \in BOOLEAN : GpNewPage(p, ok)
  \/ GetRealProfilePage(Operator)
  \/ \E p \in Procs, ok \in BOOLEAN : RpNewPage(p, ok)
  \/ \E p \in Procs : ConnectToRealChrome(p)
  \/ \E p \in Procs : RcConnectOk(p)
  \/ \E p \in Procs : RcConnectFail(p)
  \/ \E p \in Procs, ok \in BOOLEAN : RcTitles(p, ok)
  \/ \E p \in Procs : LaunchRealChromeProfile(p)
  \/ \E p \in Procs, ok \in BOOLEAN : LpClose(p, ok)
  \/ \E p \in Procs, n \in {0, 1} : LpLaunchOk(p, n)
  \/ \E p \in Procs : LpLaunchFail(p)
  \/ \E p \in Procs, ok \in BOOLEAN : LpNewPage(p, ok)
  \/ \E p \in Procs : Return(p)
  \/ ChromeQuits

AttachSpec == BridgeInit /\ [][AttachNext]_vars

\* the unified page acquisition over its three sources: one client of the
\* tool facade acquires pages while an operator launches the profile
\* as BridgeInit, over a sessions directory in which the session the facade
\* is called with may have a file
SharedPageInit ==
  /\ InitManager
  /\ profileLock = FALSE
  /\ chrome \in { [up |-> FALSE, tabs |-> <<>>] }
                \cup { [up |-> TRUE, tabs |-> t] : t \in ChromeTabs }
  /\ \E st \in { NoFile, [exists |-> TRUE, state |-> {}, createdAt |-> 0, lastUsed |-> 0] } :
       sessionFiles = [f \in SessionPaths |->
                         IF \E n \in SharedSessions \ {NoSession} : f = getSessionPath(n)
                           THEN st ELSE NoFile]
  /\ now = 1
  /\ saved = { n \in SharedSessions \ {NoSession} : sessionFiles[getSessionPath(n)].exists }

SharedPageNext ==
  \/ \E s \in SharedSessions : GetSharedPage(Client, s)
  \/ \E p \in Procs : GpConnectOk(p)
  \/ \E p \in Procs : GpConnectFail(p)
  \/ \E p \in Procs, ok \in BOOLEAN : GpNewPage(p, ok)
  \/ \E p \in Procs, ok \in BOOLEAN : RpNewPage(p, ok)
  \/ LaunchRealChromeProfile(Operator)
  \/ \E p \in Procs, ok \in BOOLEAN : LpClose(p, ok)
  \/ \E p \in Procs, n \in {0, 1} : LpLaunchOk(p, n)
  \/ \E p \in Procs : LpLaunchFail(p)
  \/ \E p \in Procs, ok \in BOOLEAN : LpNewPage(p, ok)
  \/ \E p \in Procs : LaunchOk(p)
  \/ \E p \in Procs : LaunchFail(p)
  \/ \E p \in Procs : ReadStorageState(p)
  \/ \E p \in Procs : NewContextOk(p)
  \/ \E p \in Procs : NewContextFail(p)
  \/ \E p \in Procs : AddInitScriptOk(p)
  \/ \E p \in Procs : AddInitScriptFail(p)
  \/ \E p \in Procs : NewPageOk(p)
  \/ \E p \in Procs : NewPageFail(p)
  \/ \E p \in Procs : Return(p)
  \/ ChromeQuits

SharedPageSpec == SharedPageInit /\ [][SharedPageNext]_vars

(* The session argument of the WebSocket and REST requests: none, or a    *)
(* name that may have a file.                                             *)
WsSessions == { NoSession, <<"b">> }

\* The messages the clients send: each type with each session from one
\* client, evaluate without a session from every client.
WsRequests ==
  { r \in WsClients \X WsTypes \X WsSessions :
      /\ r[2] = "close" => r[3] = NoSession
      /\ r[1] = WsSender \/ (r[2] = "evaluate" /\ r[3] = NoSession) }

\* the steps of the registry calls that are in flight
RegistrySteps ==
  \/ \E p \in Procs : LaunchOk(p)
  \/ \E p \in Procs : LaunchFail(p)
  \/ \E p \in Procs : ReadStorageState(p)
  \/ \E p \in Procs : NewContextOk(p)
  \/ \E p \in Procs : NewContextFail(p)
  \/ \E p \in Procs : AddInitScriptOk(p)
  \/ \E p \in Procs : AddInitScriptFail(p)
  \/ \E p \in Procs : NewPageOk(p)
  \/ \E p \in Procs : NewPageFail(p)
  \/ \E p \in Procs : CloseContextCloseOk(p)
  \/ \E p \in Procs : CloseContextCloseFail(p)
  \/ \E p \in Procs : Return(p)

\* the process starts on a sessions directory in which the session of the
\* requests may have a file
WsInit ==
  /\ InitManager
  /\ profileLock = FALSE
  /\ chrome = [up |-> FALSE, tabs |-> <<>>]
  /\ \E st \in { NoFile, [exists |-> TRUE, state |-> {}, createdAt |-> 0, lastUsed |-> 0] } :
       sessionFiles = [f \in SessionPaths |->
                         IF f = getSessionPath(<<"b">>) THEN st ELSE NoFile]
  /\ now = 0
  /\ saved = { n \in SessionNames : sessionFiles[getSessionPath(n)].exists }

\* the WebSocket server: connections, messages, the heartbeat, disconnects
WsNext ==
  \/ \E c \in WsClients : Connection(c)
  \/ \E r \in WsRequests : OnMessage(r[1], Client, r[2], r[3])
  \/ Heartbeat
  \/ \E c \in WsClients : PeerPong(c)
  \/ \E c \in WsClients : OnPong(c)
  \/ \E c \in WsClients, p \in Procs : OnClose(c, p)
  \/ RegistrySteps

WsSpec == WsInit /\ [][WsNext]_vars

\* the awaited engine call of caller p settles, or p takes its result
SettleSteps(p) ==
  \/ LaunchOk(p)
  \/ LaunchFail(p)
  \/ NewContextOk(p)
  \/ NewContextFail(p)
  \/ AddInitScriptOk(p)
  \/ AddInitScriptFail(p)
  \/ NewPageOk(p)
  \/ NewPageFail(p)
  \/ CloseContextCloseOk(p)
  \/ CloseContextCloseFail(p)
  \/ Return(p)

\* the 'close' event that follows terminate()
CloseAfterTerminate(c) ==
  /\ clients[c].sock = "terminated"
  /\ \E p \in Procs : OnClose(c, p)

\* clients that connect, evaluate, go silent and go away
WsTeardownNext ==
  \/ \E c \in WsClients : Connection(c)
  \/ OnMessage(WsSender, Client, "evaluate", NoSession)
  \/ Heartbeat
  \/ \E c \in WsClients : PeerPong(c)
  \/ \E c \in WsClients : OnPong(c)
  \/ \E c \in WsClients, p \in Procs : OnClose(c, p)
  \/ \E p \in Procs : SettleSteps(p)

WsTeardownSpec == Init /\ [][WsTeardownNext]_vars

\* every awaited call settles and every result is taken; the 'close' event
\* of a terminated socket is delivered
WsTeardownFairSpec ==
  /\ WsTeardownSpec
  /\ \A p \in Procs : WF_vars(SettleSteps(p))
  /\ \A c \in WsClients : SF_vars(CloseAfterTerminate(c))

\* part_002:14  DEFAULT_CONTEXT = 'default'
DEFAULT_CONTEXT == <<"d">>

\* the request handlers of the REST routes and of the WebSocket server
FacadeNext ==
  \/ \E c \in WsClients : Connection(c)
  \/ \E r \in WsRequests : OnMessage(r[1], Client, r[2], r[3])
  \/ \E s \in WsSessions : RestRequest(Operator, DEFAULT_CONTEXT, s, FALSE)
  \/ RegistrySteps

FacadeSpec == WsInit /\ [][FacadeNext]_vars

\* tab listing against both attachment modes coming and going
TabsNext ==
  \/ ListAllTabs(Client)
  \/ \E p \in Procs, ok \in BOOLEAN : LtTitles(p, ok)
  \/ ConnectToRealChrome(Operator)
  \/ \E p \in Procs : RcConnectOk(p)
  \/ \E p \in Procs : RcConnectFail(p)
  \/ \E p \in Procs, ok \in BOOLEAN : RcTitles(p, ok)
  \/ LaunchRealChromeProfile(Operator)
  \/ \E p \in Procs, ok \in BOOLEAN : LpClose(p, ok)
  \/ \E p \in Procs, n \in {0, 1} : LpLaunchOk(p, n)
  \/ \E p \in Procs : LpLaunchFail(p)
  \/ \E p \in Procs, ok \in BOOLEAN : LpNewPage(p, ok)
  \/ \E p \in Procs : Return(p)
  \/ ChromeQuits
  \/ \E c \in 1..MaxProfiles : ProfileWindowClosed(c)

TabsSpec == BridgeInit /\ [][TabsNext]_vars

\* logins are started and the user logs in; nobody calls save or close
AutoSaveNext ==
  \/ \E p \in Procs, n \in SessionNames : StartLoginSession(p, n)
  \/ \E p \in Procs, ok \in BOOLEAN : StartLoginPriorClosed(p, ok)
  \/ \E p \in Procs : StartLoginLaunchOk(p)
  \/ \E p \in Procs : StartLoginInitOk(p)
  \/ \E p \in Procs : StartLoginNewPageOk(p)
  \/ \E p \in Procs : StartLoginThrows(p)
  \/ \E p \in Procs : StartLoginGotoOk(p)
  \/ \E p \in Procs : StartLoginGotoFail(p)
  \/ \E p \in Procs, ok \in BOOLEAN : StartLoginAbandon(p, ok)
  \/ \E c \in 1..MaxLogins, ck \in Cookies : UserLogsIn(c, ck)
  \/ \E p \in Procs : Return(p)

AutoSaveSpec == Init /\ [][AutoSaveNext]_vars

\* the awaited call of a startLoginSession of caller p settles, or p takes
\* its result
StartLoginSettles(p) ==
  \/ \E ok \in BOOLEAN : StartLoginPriorClosed(p, ok)
  \/ StartLoginLaunchOk(p)
  \/ StartLoginInitOk(p)
  \/ StartLoginNewPageOk(p)
  \/ StartLoginThrows(p)
  \/ StartLoginGotoOk(p)
  \/ StartLoginGotoFail(p)
  \/ \E ok \in BOOLEAN : StartLoginAbandon(p, ok)
  \/ Return(p)

\* every awaited call settles and every result is taken; requests are made
\* or not as the client likes
AutoSaveFairSpec == AutoSaveSpec /\ \A p \in Procs : WF_vars(StartLoginSettles(p))

\* the login coordinator next to the registry: one caller starts and closes
\* logins while the other works the registry and shuts it down; the engine
\* calls of the registry all resolve
LoginGuardNext ==
  \/ \E n \in SessionNames : StartLoginSession(Client, n)
  \/ \E n \in SessionNames : CloseLoginSession(Client, n)
  \/ \E p \in Procs, ok \in BOOLEAN : StartLoginPriorClosed(p, ok)
  \/ \E p \in Procs : StartLoginLaunchOk(p)
  \/ \E p \in Procs : StartLoginInitOk(p)
  \/ \E p \in Procs : StartLoginNewPageOk(p)
  \/ \E p \in Procs : StartLoginThrows(p)
  \/ \E p \in Procs : StartLoginGotoOk(p)
  \/ \E p \in Procs : StartLoginGotoFail(p)
  \/ \E p \in Procs, ok \in BOOLEAN : StartLoginAbandon(p, ok)
  \/ \E p \in Procs, ok \in BOOLEAN : CloseLoginState(p, ok)
  \/ \E p \in Procs, ok \in BOOLEAN : CloseLoginClose(p, ok)
  \/ \E p \in Procs, ok \in BOOLEAN : CloseLoginCloseAgain(p, ok)
  \/ GetOrCreatePage(Operator, <<"a">>, NoSession, TRUE)
  \/ CloseContext(Operator, <<"a">>, NoSession)
  \/ CloseAll(Operator)
  \/ \E p \in Procs : LaunchOk(p)
  \/ \E p \in Procs : NewContextOk(p)
  \/ \E p \in Procs : AddInitScriptOk(p)
  \/ \E p \in Procs : NewPageOk(p)
  \/ \E p \in Procs : CloseContextCloseOk(p)
  \/ \E p \in Procs, ok \in BOOLEAN : CloseAllClose(p, ok)
  \/ \E p \in Procs, ok \in BOOLEAN : CloseAllHeadless(p, ok)
  \/ \E p \in Procs : Return(p)

LoginGuardSpec == Init /\ [][LoginGuardNext]_vars

\* the keys of the two maps
MapsKeys == { << <<"a">>, NoSession >>, << <<"a">>, <<"b">> >> }

\* the registry under interleavings of getOrCreatePage, closeContext and
\* closeAll, with pages that get closed: one caller acquires and closes,
\* the other closes and shuts down
MapsNext ==
  \/ \E k \in MapsKeys : GetOrCreatePage(Client, k[1], k[2], TRUE)
  \/ \E p \in Procs, k \in MapsKeys : CloseContext(p, k[1], k[2])
  \/ CloseAll(Operator)
  \/ \E p \in Procs : SettleSteps(p)
  \/ \E p \in Procs, ok \in BOOLEAN : CloseAllClose(p, ok)
  \/ \E p \in Procs, ok \in BOOLEAN : CloseAllHeadless(p, ok)
  \/ \E c \in 1..MaxContexts : PageClosed(c)

MapsSpec == Init /\ [][MapsNext]_vars

\* the process starts on a profile directory in which a crashed earlier run
\* may have left its lock files
ProfileInit ==
  /\ InitManager
  /\ profileLock \in BOOLEAN
  /\ chrome = [up |-> FALSE, tabs |-> <<>>]
  /\ sessionFiles = [f \in SessionPaths |-> NoFile]
  /\ now = 0
  /\ saved = {}

\* profile launches from both callers, with a real-profile page request and
\* a user who may close the window
ProfileNext ==
  \/ \E p \in Procs : LaunchRealChromeProfile(p)
  \/ \E p \in Procs, ok \in BOOLEAN : LpClose(p, ok)
  \/ \E p \in Procs, n \in {0, 1} : LpLaunchOk(p, n)
  \/ \E p \in Procs : LpLaunchFail(p)
  \/ \E p \in Procs, ok \in BOOLEAN : LpNewPage(p, ok)
  \/ \E p \in Procs : Return(p)
  \/ \E c \in 1..MaxProfiles : ProfileWindowClosed(c)

ProfileSpec == ProfileInit /\ [][ProfileNext]_vars

\* connections to a Chrome that may be down, hung or quitting
ConnectNext ==
  \/ \E p \in Procs : ConnectToRealChrome(p)
  \/ \E p \in Procs : RcConnectOk(p)
  \/ \E p \in Procs : RcConnectFail(p)
  \/ \E p \in Procs, ok \in BOOLEAN : RcTitles(p, ok)
  \/ \E p \in Procs : Return(p)
  \/ ChromeQuits

ConnectSpec == BridgeInit /\ [][ConnectNext]_vars

\* contexts seeded from the sessions of earlier runs, reused while their
\* page is open and replaced once it was closed, with a clock
ReuseNext ==
  \/ \E k \in SeedKeys : GetOrCreatePage(Client, k[1], k[2], TRUE)
  \/ \E p \in Procs : LaunchOk(p)
  \/ \E p \in Procs : LaunchFail(p)
  \/ \E p \in Procs : ReadStorageState(p)
  \/ \E p \in Procs : NewContextOk(p)
  \/ \E p \in Procs : NewContextFail(p)
  \/ \E p \in Procs : AddInitScriptOk(p)
  \/ \E p \in Procs : AddInitScriptFail(p)
  \/ \E p \in Procs : NewPageOk(p)
  \/ \E p \in Procs : NewPageFail(p)
  \/ \E p \in Procs : Return(p)
  \/ \E c \in 1..MaxContexts : PageClosed(c)
  \/ Tick

ReuseSpec == StoreInit /\ [][ReuseNext]_vars

(* ------------------------------ claims --------------------------------- *)

IsGetOrCreatePage(p) == call[p].op = "getOrCreatePage"

CallKey(p) == getContextKey(call[p].contextId, call[p].session)

Registered == MapValues(activeContexts)

\* C1: a getOrCreatePage call made while its key is registered with a page
\* that is not closed returns exactly the registered context and page at
\* once, creates no context, launches nothing and leaves both maps as they
\* were.
C1_HotPathReturnsRegistered ==
  [][\A p \in Procs :
       (pc[p] = "idle" /\ call'[p].op = "getOrCreatePage") =>
         LET key == getContextKey(call'[p].contextId, call'[p].session)
             c == MapGet(activeContexts, key)
             pg == MapGet(activePages, key)
         IN (c # Null /\ pg # Null /\ contexts[pg].pageOpen) =>
              /\ pc'[p] = "done"
              /\ ret'[p].context = c
              /\ ret'[p].page = pg
              /\ contexts' = contexts
              /\ browsers' = browsers
              /\ activeContexts' = activeContexts
              /\ activePages' = activePages]_vars

\* C1 witness: a call has returned an already registered pair with no creation
C1_Witness ==
  \E p \in Procs :
    /\ pc[p] = "done" /\ IsGetOrCreatePage(p)
    /\ ~ret[p].created
    /\ ret[p].context # Null
    /\ MapGet(activeContexts, CallKey(p)) = ret[p].context
    /\ contexts[ret[p].page].pageOpen

\* the step of p is a settled close inside closeContext(contextId)
ClosedOneIn(p) ==
  /\ pc[p] = "ccClose"
  /\ pc'[p] = "done" \/ loc'[p].key # loc[p].key

\* C2: when closeContext(contextId) without a session completes, no entry
\* registered under that contextId is left, and no step of it removes or
\* closes an entry that was registered under a different contextId.
C2_CloseContextSparesOtherIds ==
  [][\A p \in Procs :
       (call'[p].op = "closeContext" /\ call'[p].session = NoSession
          /\ (pc[p] = "idle" \/ ClosedOneIn(p))) =>
         /\ pc'[p] = "done" =>
              \A i \in 1..Len(activeContexts') :
                contexts'[activeContexts'[i].val].contextId # call'[p].contextId
         /\ \A i \in 1..Len(activeContexts) :
              contexts[activeContexts[i].val].contextId # call'[p].contextId =>
                /\ \E j \in 1..Len(activeContexts') :
                     activeContexts'[j] = activeContexts[i]
                /\ contexts'[activeContexts[i].val].open
                     = contexts[activeContexts[i].val].open]_vars

\* C3: two getOrCreatePage calls made with different (contextId, session)
\* pairs never return the same context.
C3_DistinctKeysDistinctContexts ==
  \A p, q \in Procs :
    (/\ pc[p] = "done" /\ IsGetOrCreatePage(p)
     /\ pc[q] = "done" /\ IsGetOrCreatePage(q)
     /\ << call[p].contextId, call[p].session >> # << call[q].contextId, call[q].session >>)
    => ret[p].context # ret[q].context

\* C4: when a getOrCreatePage call registers for a key under which an
\* overlapping call has registered its own new context (still registered,
\* its page open), the registering caller gets a live context and page, the
\* other caller's context and page stay live, both maps hold the pair
\* registered last, and exactly one of the two contexts is live and
\* unregistered.
C4_RaceLastWriteWins ==
  [][\A p, q \in Procs :
       (/\ p # q
        /\ pc[p] = "newPage" /\ pc'[p] = "done"
        /\ pc[q] = "done" /\ IsGetOrCreatePage(q) /\ ret[q].created
        /\ CallKey(q) = loc[p].key
        /\ MapGet(activeContexts, loc[p].key) = ret[q].context
        /\ contexts[ret[q].context].open
        /\ contexts[ret[q].page].pageOpen) =>
         LET mine == ret'[p].context
             theirs == ret[q].context
         IN /\ mine # theirs
            /\ contexts'[mine].open /\ contexts'[ret'[p].page].pageOpen
            /\ contexts'[theirs].open /\ contexts'[ret[q].page].pageOpen
            /\ MapGet(activeContexts', loc[p].key) = mine
            /\ MapGet(activePages', loc[p].key) = ret'[p].page
            /\ Cardinality({c \in {mine, theirs} :
                 contexts'[c].open /\ c \notin MapValues(activeContexts')}) = 1]_vars

\* C4 witness: both callers of the race hold live pairs, the registry holds
\* one of the two contexts and the other is live and unregistered
C4_Witness ==
  \E p, q \in Procs :
    /\ p # q
    /\ pc[p] = "done" /\ IsGetOrCreatePage(p) /\ ret[p].created
    /\ pc[q] = "done" /\ IsGetOrCreatePage(q) /\ ret[q].created
    /\ CallKey(p) = CallKey(q)
    /\ MapGet(activeContexts, CallKey(p)) = ret[p].context
    /\ ret[q].context \notin Registered
    /\ contexts[ret[p].context].open /\ contexts[ret[p].page].pageOpen
    /\ contexts[ret[q].context].open /\ contexts[ret[q].page].pageOpen

QuietCloseAllDone(p) == pc[p] = "done" /\ call[p].op = "closeAll" /\ quiet[p]

\* C5: when closeAll has completed and no other call ran since it began,
\* both maps and both pool slots are empty, also when close() calls failed;
\* closeAll never rejects.
C5_CloseAllEmptiesRegistryAndPool ==
  \A p \in Procs :
    /\ QuietCloseAllDone(p) =>
         /\ activeContexts = <<>>
         /\ activePages = <<>>
         /\ headlessBrowser = Null
         /\ headedBrowser = Null
    /\ call[p].op = "closeAll" => pc[p] # "threw"

\* C5 witness: a quiet closeAll completed although a close() call failed
C5_Witness ==
  \E p \in Procs : QuietCloseAllDone(p) /\ loc[p].err /\ Len(browsers) > 0

\* C6: after closeAll has completed (no other call ran since it began), no
\* context created by getOrCreatePage is live and no browser launched by the
\* pool is running.  Checked where no close() call ever rejects.
C6_NothingLiveAfterCloseAll ==
  \A p \in Procs :
    QuietCloseAllDone(p) =>
      /\ \A c \in DOMAIN contexts : ~contexts[c].open
      /\ \A b \in DOMAIN browsers : ~browsers[b].connected

\* C7: at most one live browser process launched by the pool exists per mode.
C7_OneLiveBrowserPerMode ==
  \A h \in BOOLEAN :
    Cardinality({b \in DOMAIN browsers :
                   browsers[b].connected /\ browsers[b].headless = h}) <= 1

\* C8: an acquisition that finds a connected browser in the slot of its mode
\* returns that browser and launches nothing; it waits for a launch only
\* when the slot is empty or its browser is disconnected; and a browser is
\* launched only by a call that waited so.
C8_LaunchOnlyWhenNeeded ==
  [][/\ \A p \in Procs :
          (pc[p] = "idle" /\ pc'[p] \in {"launch", "newContext"}) =>
            LET slot == IF call'[p].headless THEN headlessBrowser ELSE headedBrowser
            IN IF slot # Null /\ browsers[slot].connected
                 THEN /\ pc'[p] = "newContext"
                      /\ loc'[p].br = slot
                      /\ browsers' = browsers
                      /\ headlessBrowser' = headlessBrowser
                      /\ headedBrowser' = headedBrowser
                 ELSE pc'[p] = "launch"
     /\ Len(browsers') > Len(browsers) =>
          /\ Len(browsers') = Len(browsers) + 1
          /\ \E p \in Procs : pc[p] = "launch" /\ pc'[p] = "newContext"]_vars

\* C8 witness: a second acquisition reuses the connected browser of the one
\* launch made so far
C8_Witness ==
  \E p \in Procs :
    /\ pc[p] = "newContext"
    /\ Len(browsers) = 1 /\ Len(contexts) >= 1
    /\ loc[p].br = Slot(call[p].headless)
    /\ browsers[loc[p].br].connected

LaunchingLogin(p) == pc[p] \in {"slLaunch", "slInit", "slNewPage", "slGoto", "slAbandon"}

C10_OneLiveLoginPerName ==
  \A n \in SessionNames :
    Cardinality({c \in DOMAIN loginContexts :
                   loginContexts[c].open /\ loginContexts[c].name = n}) <= 1

\* C11: closeLoginSession(name) for a name with no active login returns a
\* failure and changes nothing; for an active login it awaits the save, then
\* always awaits close() on the context, and when it settles the name is
\* out of the active set; it reports success only when the save resolved and
\* the context is closed, a failure result otherwise, and never rejects.
C11_CloseLoginAlwaysClosesAndRemoves ==
  [][\A p \in Procs :
       LET name == call'[p].session IN
       /\ (pc[p] = "idle" /\ call'[p].op = "closeLoginSession") =>
            /\ loginContexts' = loginContexts
            /\ activeLoginSessions' = activeLoginSessions
            /\ sessionFiles' = sessionFiles
            /\ IF activeLoginSessions[name] = Null
                 THEN pc'[p] = "done" /\ ~ret'[p].success
                 ELSE pc'[p] = "clState"
       /\ (pc[p] = "clState" /\ pc'[p] # "clState") =>
            /\ pc'[p] \in {"clClose", "clCloseAgain"}
            /\ pc'[p] = "clClose" <=> ~loc'[p].err
            /\ ~loc'[p].err => sessionFiles'[getSessionPath(name)].exists
       /\ (pc[p] \in {"clClose", "clCloseAgain"} /\ pc'[p] # pc[p]) =>
            /\ pc'[p] \in {"clCloseAgain", "done"}
            /\ pc'[p] = "done" =>
                 /\ activeLoginSessions'[name] = Null
                 /\ ret'[p].success =>
                      /\ pc[p] = "clClose" /\ ~loc[p].err
                      /\ sessionFiles'[getSessionPath(name)].exists
                      /\ ~loginContexts'[loc[p].ctx].open
                 /\ ~ret'[p].success => pc[p] = "clCloseAgain"
       /\ call'[p].op = "closeLoginSession" => pc'[p] # "threw"]_vars

\* C11 witness: closeLoginSession returned a failure after the save
\* failed, with the context closed and the name out of the active set
C11_Witness ==
  \E p \in Procs :
    /\ pc[p] = "done" /\ call[p].op = "closeLoginSession"
    /\ ret[p].context # Null /\ ~ret[p].success
    /\ ~loginContexts[ret[p].context].open
    /\ ~sessionExists(call[p].session)
    /\ activeLoginSessions[call[p].session] = Null

\* C12: saveLoginSession(name) for a name with no active login returns a
\* failure and writes no file; for an active login it writes the storage
\* state of the login context to the session file of name when the write
\* succeeds, writes nothing when it fails, and in both cases leaves the
\* active set and the login contexts as they were; it never rejects.
C12_SaveLoginKeepsSessionOpen ==
  [][\A p \in Procs :
       LET name == call'[p].session IN
       /\ (pc[p] = "idle" /\ call'[p].op = "saveLoginSession") =>
            /\ loginContexts' = loginContexts
            /\ activeLoginSessions' = activeLoginSessions
            /\ sessionFiles' = sessionFiles
            /\ IF activeLoginSessions[name] = Null
                 THEN pc'[p] = "done" /\ ~ret'[p].success
                 ELSE pc'[p] = "svState"
       /\ (pc[p] = "svState" /\ pc'[p] # "svState") =>
            /\ pc'[p] = "done"
            /\ loginContexts' = loginContexts
            /\ activeLoginSessions' = activeLoginSessions
            /\ IF ret'[p].success
                 THEN /\ sessionFiles'[getSessionPath(name)].exists
                      /\ sessionFiles'[getSessionPath(name)].state
                           = loginContexts[loc[p].ctx].state
                      /\ \A f \in SessionPaths \ {getSessionPath(name)} :
                           sessionFiles'[f] = sessionFiles[f]
                 ELSE sessionFiles' = sessionFiles]_vars

\* C12 witness: a save returned success, the cookie of the login is in the
\* session file, the login is still active and its context open
C12_Witness ==
  \E p \in Procs :
    /\ pc[p] = "done" /\ call[p].op = "saveLoginSession" /\ ret[p].success
    /\ activeLoginSessions[call[p].session] = ret[p].context
    /\ loginContexts[ret[p].context].open
    /\ sessionFiles[getSessionPath(call[p].session)].state = {"a=1"}

\* C13: when page.goto rejects in startLoginSession, the new context is
\* closed, the active set is not changed and a failure result is returned;
\* a name enters the active set only in the step in which the navigation of
\* a startLoginSession for that name succeeded.
C13_NavigationFailureAbandons ==
  [][/\ \A p \in Procs :
          /\ (pc[p] = "slGoto" /\ pc'[p] = "slAbandon") =>
               activeLoginSessions' = activeLoginSessions
          /\ (pc[p] = "slAbandon" /\ pc'[p] # "slAbandon") =>
               /\ pc'[p] = "done"
               /\ ~ret'[p].success
               /\ ~loginContexts'[loc[p].ctx].open
               /\ activeLoginSessions' = activeLoginSessions
     /\ \A n \in SessionNames :
          (activeLoginSessions'[n] # activeLoginSessions[n]
             /\ activeLoginSessions'[n] # Null) =>
            \E p \in Procs : /\ pc[p] = "slGoto" /\ pc'[p] = "done"
                              /\ call[p].session = n /\ ret'[p].success]_vars

ResultOps == {"startLoginSession", "saveLoginSession", "closeLoginSession",
              "connectToRealChrome", "launchRealChromeProfile",
              "getRealChromePage", "getRealProfilePage", "listAllTabs"}

\* C14: no operation that returns a result object ever rejects, whichever
\* engine call fails inside it.
C14_ResultOpsNeverThrow ==
  \A p \in Procs : call[p].op \in ResultOps => pc[p] # "threw"

\* C15: for every pattern, a getSharedPage call made while the
\* remote-debugging attachment is live, or while the call itself attaches,
\* and the attachment has a tab whose URL contains the pattern, returns a tab
\* of the attachment whose URL contains the pattern, whether or not a
\* profile context is set.
C15_SharedPageReturnsMatchingTab ==
  [][\A p \in Procs : \A urlPattern \in Patterns \ {NoPattern} :
       (/\ call'[p].op = "getSharedPage"
        /\ \/ pc[p] = "idle" /\ CdpLive
           \/ pc[p] = "gpConnect" /\ connectedBrowser' # connectedBrowser
        /\ FirstTab(chrome.tabs, urlPattern) # 0) =>
         /\ pc'[p] = "done"
         /\ ret'[p].source = "real-chrome-cdp"
         /\ ret'[p].page = FirstTab(chrome.tabs, urlPattern)]_vars

\* C16: getSharedPage takes the first tab of the remote-debugging
\* attachment when it is live or can be attached (a new tab when it has
\* none); only when the attach failed, the first page of the profile context
\* when one is set (a new page when it has none); only when none is set, the
\* session check and then the registry under getContextKey('mcp-http',
\* session).  A page from an external mode is chosen without the session
\* argument, and a registry entry changes only at the end of the registry
\* path, under that key.
C16_SharedPageStrictOrder ==
  [][\A p \in Procs :
       call'[p].op = "getSharedPage" =>
         LET s == call'[p].session
             key == getContextKey(MCP_CONTEXT, s)
             FromCdp ==
               \/ /\ chrome.tabs # <<>>
                  /\ pc'[p] = "done" /\ ret'[p].success
                  /\ ret'[p].source = "real-chrome-cdp" /\ ret'[p].page = 1
               \/ chrome.tabs = <<>> /\ pc'[p] = "gpNewPage"
             FromProfile ==
               \/ /\ ProfilePages(realChromeContext) > 0
                  /\ pc'[p] = "done" /\ ret'[p].success
                  /\ ret'[p].source = "real-chrome-profile" /\ ret'[p].page = 1
                  /\ ret'[p].context = realChromeContext
               \/ /\ ProfilePages(realChromeContext) = 0
                  /\ pc'[p] = "rpNewPage" /\ loc'[p].ctx = realChromeContext
             FromRegistry ==
               IF s # NoSession /\ ~sessionFiles[getSessionPath(s)].exists
                 THEN pc'[p] = "done" /\ ret'[p].error /\ ~ret'[p].success
                 ELSE IF ~NeedsNewPage(key)
                   THEN /\ pc'[p] = "done" /\ ret'[p].success
                        /\ ret'[p].source = "none"
                        /\ ret'[p].context = MapGet(activeContexts, key)
                   ELSE pc'[p] \in {"launch", "newContext"} /\ loc'[p].key = key
         IN
         /\ pc[p] = "idle" =>
              /\ IF CdpLive THEN FromCdp ELSE pc'[p] = "gpConnect"
              /\ UNCHANGED << registryVars, contexts >>
         /\ (pc[p] = "gpConnect" /\ pc'[p] # "gpConnect") =>
              /\ IF connectedBrowser' # connectedBrowser THEN FromCdp
                  ELSE IF realChromeContext # Null THEN FromProfile
                  ELSE FromRegistry
              /\ UNCHANGED << registryVars, contexts >>
         /\ (pc[p] = "gpNewPage" /\ pc'[p] # "gpNewPage") =>
              /\ \/ pc'[p] = "threw"
                 \/ /\ pc'[p] = "done" /\ ret'[p].source = "real-chrome-cdp"
                    /\ ret'[p].page = Len(chrome'.tabs)
              /\ UNCHANGED << registryVars, contexts >>
         /\ (pc[p] = "rpNewPage" /\ pc'[p] # "rpNewPage") =>
              /\ \/ pc'[p] = "threw"
                 \/ pc'[p] = "done" /\ ret'[p].source = "real-chrome-profile"
              /\ UNCHANGED << registryVars, contexts >>
         /\ (pc[p] # pc'[p] /\ activeContexts' # activeContexts) =>
              /\ pc[p] = "newPage" /\ pc'[p] = "done"
              /\ MapGet(activeContexts', key) = ret'[p].context
              /\ MapKeys(activeContexts') = MapKeys(activeContexts) \cup {key}]_vars

\* C16 witness: with no attachment and a profile context set, a call with
\* a session that has no file returned the profile's page; the session
\* check was not reached and the registry is empty
C16_Witness ==
  \E p \in Procs :
    /\ pc[p] = "done" /\ call[p].op = "getSharedPage"
    /\ call[p].session # NoSession /\ ~sessionExists(call[p].session)
    /\ ret[p].success /\ ret[p].source = "real-chrome-profile"
    /\ ~CdpLive
    /\ activeContexts = <<>>

\* C17: at most one connection made by connectOverCDP is connected and at
\* most one context launched by launchRealChromeProfile is open.
C17_OneLiveAttachmentPerMode ==
  /\ Cardinality({b \in DOMAIN cdpBrowsers : cdpBrowsers[b].connected}) <= 1
  /\ Cardinality({c \in DOMAIN profileContexts : profileContexts[c].open}) <= 1

\* the step of p is a storage state saved under the session name of its call
SavedByStep(p) ==
  \/ pc[p] = "svState" /\ pc'[p] = "done" /\ ret'[p].success
  \/ pc[p] = "clState" /\ pc'[p] = "clClose"

\* C18: sessionExists(name) is true right after a storage state is saved
\* under name and false right after deleteSession(name); deleteSession
\* returns true exactly when the record existed before the call, returns
\* false and changes nothing for a name nothing was ever saved under, and
\* leaves the record of every other name as it was.
C18_StoreExistsSaveDelete ==
  [][\A p \in Procs :
       /\ SavedByStep(p) => sessionFiles'[getSessionPath(call[p].session)].exists
       /\ (pc[p] = "idle" /\ call'[p].op = "deleteSession") =>
            LET name == call'[p].session IN
            /\ pc'[p] = "done"
            /\ ~sessionFiles'[getSessionPath(name)].exists
            /\ ret'[p].success <=> sessionFiles[getSessionPath(name)].exists
            /\ name \notin saved => ~ret'[p].success /\ sessionFiles' = sessionFiles
            /\ \A m \in StoreNames \ {name} :
                 sessionFiles'[getSessionPath(m)] = sessionFiles[getSessionPath(m)]]_vars

\* C19: touchSession(name) on an existing session makes its lastUsed
\* strictly later than it was and keeps its createdAt and its storage
\* state; on a session that does not exist it changes nothing.
C19_TouchStrictlyLater ==
  [][\A p \in Procs :
       (pc[p] = "idle" /\ call'[p].op = "touchSession") =>
         LET f == getSessionPath(call'[p].session) IN
         IF sessionFiles[f].exists
           THEN /\ sessionFiles'[f].lastUsed > sessionFiles[f].lastUsed
                /\ sessionFiles'[f].createdAt = sessionFiles[f].createdAt
                /\ sessionFiles'[f].state = sessionFiles[f].state
                /\ sessionFiles'[f].exists
                /\ listSessions' # listSessions
           ELSE sessionFiles' = sessionFiles]_vars

\* C20: a getOrCreatePage call that creates a context passes the session
\* file to newContext exactly when a session is given and its record
\* exists; the context is then created with exactly the storage state read
\* from that record and the record's lastUsed becomes the time of the
\* creation, its state and createdAt staying as they were; otherwise a
\* context with empty storage state is created and no record changes.
C20_NewContextSeededFromSession ==
  [][\A p \in Procs :
       LET f == getSessionPath(call'[p].session) IN
       /\ (pc[p] \in {"idle", "launch"} /\ pc'[p] = "newContext") =>
            (loc'[p].seed = "path"
               <=> call'[p].session # NoSession /\ sessionFiles[f].exists)
       /\ (pc[p] = "newContext" /\ pc'[p] = "newContext"
             /\ loc'[p].seed # loc[p].seed) =>
            /\ loc'[p].seed = "read"
            /\ loc'[p].state = sessionFiles[f].state
            /\ sessionFiles' = sessionFiles
       /\ (pc[p] = "newContext" /\ pc'[p] = "addInitScript") =>
            IF loc[p].seed = "read"
              THEN /\ contexts'[loc'[p].ctx].state = loc[p].state
                   /\ sessionFiles[f].exists =>
                        sessionFiles' = [sessionFiles EXCEPT ![f].lastUsed = now]
                   /\ \A g \in SessionPaths \ {f} : sessionFiles'[g] = sessionFiles[g]
              ELSE /\ loc[p].seed = "none"
                   /\ contexts'[loc'[p].ctx].state = {}
                   /\ sessionFiles' = sessionFiles]_vars

\* C20 witness: a context was created holding the cookie stored under its
\* session, and the record's lastUsed moved to the time of the creation
C20_Witness ==
  \E p \in Procs :
    LET f == getSessionPath(call[p].session) IN
    /\ pc[p] = "addInitScript"
    /\ contexts[loc[p].ctx].state = {"a=1"}
    /\ sessionFiles[f].exists /\ sessionFiles[f].state = {"a=1"}
    /\ sessionFiles[f].lastUsed = now
    /\ sessionFiles[f].lastUsed > sessionFiles[f].createdAt

\* the keys of the registry that closeContext(contextId, session) acts on
TargetKeys(m, contextId, session) ==
  IF session # NoSession
    THEN { k \in MapKeys(m) : k = getContextKey(contextId, session) }
    ELSE { k \in MapKeys(m) : KeyMatches(k, contextId) }

\* C21: a closeContext call made while no registered key is the key of its
\* (contextId, session), or, without a session, matches its contextId,
\* completes at once without throwing and changes nothing; and when a
\* closeContext call completes no such key is registered, so that the same
\* call made again right after it is such a call.
C21_CloseContextMissingIsNoOp ==
  [][\A p \in Procs :
       call'[p].op = "closeContext" =>
         LET T  == TargetKeys(activeContexts, call'[p].contextId, call'[p].session)
             Tp == TargetKeys(activeContexts', call'[p].contextId, call'[p].session)
         IN
         /\ (pc[p] = "idle" /\ T = {}) =>
              /\ pc'[p] = "done"
              /\ UNCHANGED << poolVars, contexts, registryVars, loginVars, bridgeVars,
                              sessionFiles >>
         /\ (pc[p] # "done" /\ pc'[p] = "done") => Tp = {}]_vars

\* C21 witness: closeContext('a:b') has completed while the only context
\* ever created is registered under the key 'a', which it does not match
C21_Witness ==
  \E p \in Procs :
    /\ pc[p] = "done" /\ call[p].op = "closeContext"
    /\ call[p].session = NoSession
    /\ activeContexts # <<>>
    /\ \A c \in DOMAIN contexts :
         /\ ~KeyMatches(getContextKey(contexts[c].contextId, contexts[c].session),
                        call[p].contextId)
         /\ contexts[c].open

\* C22: a step of closeContext(contextId, session) with a session leaves
\* every entry under another key registered as it was, in both maps, and
\* its context as open as it was; when the call completes after its close,
\* the context it found under its key is closed and the key is in neither
\* map.
C22_CloseContextWithSessionClosesOneKey ==
  [][\A p \in Procs :
       (call'[p].op = "closeContext" /\ call'[p].session # NoSession
          /\ pc[p] \in {"idle", "ccClose"} /\ pc'[p] # pc[p]) =>
         LET key == getContextKey(call'[p].contextId, call'[p].session) IN
         /\ \A i \in 1..Len(activeContexts) :
              activeContexts[i].key # key =>
                /\ \E j \in 1..Len(activeContexts') : activeContexts'[j] = activeContexts[i]
                /\ contexts'[activeContexts[i].val].open
                     = contexts[activeContexts[i].val].open
         /\ \A i \in 1..Len(activePages) :
              activePages[i].key # key =>
                \E j \in 1..Len(activePages') : activePages'[j] = activePages[i]
         /\ MapKeys(activeContexts') \subseteq MapKeys(activeContexts)
         /\ (pc[p] = "ccClose" /\ pc'[p] = "done") =>
              /\ ~contexts'[loc[p].ctx].open
              /\ ~MapHas(activeContexts', key) /\ ~MapHas(activePages', key)]_vars

\* C22 witness: closeContext('a', 'b') has completed, the context created
\* for ('a', 'b') is closed and unregistered, and the sessionless entry of
\* 'a' is registered with its context open
C22_Witness ==
  \E p \in Procs :
    /\ pc[p] = "done" /\ call[p].op = "closeContext"
    /\ call[p].contextId = <<"a">> /\ call[p].session = <<"b">>
    /\ ~MapHas(activeContexts, getContextKey(<<"a">>, <<"b">>))
    /\ \E c \in DOMAIN contexts :
         /\ contexts[c].contextId = <<"a">> /\ contexts[c].session = <<"b">>
         /\ ~contexts[c].open
    /\ MapHas(activeContexts, getContextKey(<<"a">>, NoSession))
    /\ contexts[MapGet(activeContexts, getContextKey(<<"a">>, NoSession))].open

\* the step is a tick of the heartbeat: a listed client is marked not
\* alive, or a listed client that is not alive is terminated
IsHeartbeat ==
  \E c \in WsClients :
    /\ clients[c].listed
    /\ \/ clients[c].isAlive /\ ~clients'[c].isAlive
       \/ ~clients[c].isAlive /\ ~clients'[c].listed /\ clients'[c].sock = "terminated"

\* the server pinged c at the last tick and has handled no pong since: the
\* ping is with the peer, or the pong is still on its way
Owes(c) == clients[c].ping \/ clients[c].pong

\* C23: at a tick of the heartbeat, every client in the table from which
\* no pong was handled since the ping of the previous tick is terminated,
\* deleted from the table, and closeContext is called for its contextId in
\* that step; every other client in the table keeps its socket and its
\* place in the table.
C23_HeartbeatTerminatesSilentClients ==
  [][IsHeartbeat =>
       \A c \in WsClients :
         clients[c].listed =>
           IF Owes(c)
             THEN /\ clients'[c].sock = "terminated"
                  /\ ~clients'[c].listed
                  /\ \E p \in Procs :
                       /\ pc[p] = "idle"
                       /\ call'[p].op = "closeContext"
                       /\ call'[p].contextId = WsContextId(c)
                       /\ call'[p].session = NoSession
                       /\ pc'[p] = CloseContextEntry(WsContextId(c)).pc
             ELSE /\ clients'[c].sock = "open"
                  /\ clients'[c].listed]_vars

\* C23 witness: the heartbeat has terminated a client and the closeContext
\* it called for it awaits the close of a context, while another client
\* that answered its ping is in the table
C23_Witness ==
  \E c, d \in WsClients :
    /\ clients[c].sock = "terminated" /\ ~clients[c].listed
    /\ \E p \in Procs :
         /\ call[p].via = "heartbeat" /\ call[p].client = c
         /\ pc[p] = "ccClose"
    /\ d # c /\ clients[d].listed /\ clients[d].isAlive /\ ~Owes(d)
    /\ \E q \in Procs : call[q].via = "ws" /\ call[q].client = d

\* C24: a REST request or WebSocket message that names a session with no
\* file is answered at once with a not-found failure, and its step creates
\* nothing and registers nothing.
C24_MissingSessionIsNotFound ==
  [][\A p \in Procs :
       (/\ pc[p] = "idle"
        /\ call'[p].via \in {"ws", "rest"}
        /\ call'[p].op = "getOrCreatePage"
        /\ call'[p].session # NoSession
        /\ ~sessionFiles[getSessionPath(call'[p].session)].exists) =>
         /\ pc'[p] = "done"
         /\ ret'[p].error /\ ~ret'[p].success
         /\ UNCHANGED << poolVars, contexts, registryVars >>]_vars

\* the profile context of the slot is open
ProfileLive == realChromeContext # Null /\ profileContexts[realChromeContext].open

\* C25: a listAllTabs call lists the tabs of the remote-debugging
\* connection when it is connected, whether or not a profile context is
\* live, lists the pages of the profile context when the connection is not
\* connected and the profile context is live, and returns at once a failure
\* with no tabs when neither is live.
C25_ListAllTabsPrefersCdp ==
  [][\A p \in Procs :
       (pc[p] = "idle" /\ call'[p].op = "listAllTabs") =>
         /\ CdpLive =>
              /\ ret'[p].source = "real-chrome-cdp"
              /\ ret'[p].tabs = chrome.tabs
         /\ (~CdpLive /\ ProfileLive) =>
              /\ ret'[p].source = "real-chrome-profile"
              /\ ret'[p].tabs = ProfileTabs(realChromeContext)
         /\ (~CdpLive /\ ~ProfileLive) =>
              /\ pc'[p] = "done"
              /\ ~ret'[p].success
              /\ ret'[p].tabs = <<>>]_vars

\* the user has logged in inside the login window of session name n
LoggedIn(n) ==
  /\ activeLoginSessions[n] # Null
  /\ loginContexts[activeLoginSessions[n]].open
  /\ loginContexts[activeLoginSessions[n]].state # {}

\* C26: once a login started for a session name is active and the user has
\* logged in inside its window, a session file for the name eventually
\* exists, with no saveLoginSession or closeLoginSession call being made.
C26_LoginSavedAutomatically ==
  \A n \in SessionNames : LoggedIn(n) ~> sessionExists(n)

\* the step is one of a closeLoginSession(n) or startLoginSession(n) call
EndingStep(n) ==
  \E p \in Procs :
    /\ pc'[p] # pc[p]
    /\ \/ call[p].op \in {"closeLoginSession", "startLoginSession"} /\ call[p].session = n
       \/ call'[p].op \in {"closeLoginSession", "startLoginSession"} /\ call'[p].session = n

Gone(c) == clients[c].sock \in {"closed", "terminated"}

\* nothing is registered under the contextId of client c and every context
\* created for it is closed
TornDown(c) ==
  /\ \A i \in DOMAIN activeContexts : ~KeyMatches(activeContexts[i].key, WsContextId(c))
  /\ \A x \in DOMAIN contexts :
       contexts[x].contextId = WsContextId(c) => ~contexts[x].open

\* C28: once a WebSocket client has disconnected or was declared dead by
\* the heartbeat, eventually no registry entry under its contextId remains
\* and every context created for it is closed.
C28_DisconnectTearsDown ==
  \A c \in WsClients : Gone(c) ~> TornDown(c)

\* C29: in every reachable state the context map and the page map have the
\* same keys, each key once, and getStatus().activeContexts is the number
\* of registered keys, whatever the interleaving of getOrCreatePage,
\* closeContext and closeAll.
C29_MapsHaveSameKeys ==
  /\ MapKeys(activeContexts) = MapKeys(activePages)
  /\ Len(activePages) = Cardinality(MapKeys(activePages))
  /\ getStatus.activeContexts = Cardinality(MapKeys(activeContexts))

\* a key is registered, and both maps hold it, while closeAll awaits the
\* close of its context and a getOrCreatePage is about to register
C29_Witness ==
  /\ MapKeys(activeContexts) # {}
  /\ MapKeys(activeContexts) = MapKeys(activePages)
  /\ pc[Operator] = "caClose"
  /\ pc[Client] = "newPage"

\* caller p is inside launchRealChromeProfile
InLaunchProfile(p) == call[p].op = "launchRealChromeProfile"

\* the step on which the launchPersistentContext call of p begins
LaunchBegins(p) == pc[p] # "lpLaunch" /\ pc'[p] = "lpLaunch"

\* the step on which the launchRealChromeProfile call of p returns
LaunchReturns(p) == InLaunchProfile(p) /\ pc[p] # "done" /\ pc'[p] = "done"

\* the launch begins only after the close of the context found in the slot
\* has settled, with the lock files gone
LaunchOrder ==
  \A p \in Procs :
    LaunchBegins(p) =>
      /\ pc[p] = "idle" => realChromeContext = Null
      /\ pc[p] = "lpClose" \/ pc[p] = "idle"
      /\ ~profileLock'

\* a successful return leaves a profile context with at least one page
SuccessHasPage ==
  \A p \in Procs :
    (LaunchReturns(p) /\ ret'[p].success) =>
      /\ realChromeContext' # Null
      /\ ProfilePages(realChromeContext)' >= 1

\* a failed return leaves the slot empty
FailureEmptiesSlot ==
  \A p \in Procs :
    (LaunchReturns(p) /\ ~ret'[p].success) => realChromeContext' = Null

\* C30: launchRealChromeProfile closes the context found in the slot,
\* whatever the close does, then removes the lock files of the profile
\* directory, then launches; a successful return leaves a profile context
\* with at least one page, and a return that reports a failed launch leaves
\* the slot empty.
C30_LaunchProfileSteps ==
  [][LaunchOrder /\ SuccessHasPage /\ FailureEmptiesSlot]_vars

\* the connectToRealChrome call of p has settled
ConnectSettled(p) ==
  call[p].op = "connectToRealChrome" /\ pc[p] \in {"done", "threw"}

\* C31: a connectToRealChrome call never throws; when the endpoint refused
\* the connection it returns the failure that carries the operator
\* instructions, and for every other error it returns the generic
\* 'Failed to connect' failure.
C31_RefusalGetsInstructions ==
  \A p \in Procs :
    ConnectSettled(p) =>
      /\ pc[p] = "done"
      /\ ~ret[p].success =>
           ret[p].message = IF ret[p].cause = Refused THEN "instructions" ELSE "generic"

\* the step is one of the getOrCreatePage call of p
GetOrCreatePageStep(p) ==
  /\ call'[p].op = "getOrCreatePage"
  /\ << pc[p], loc[p] >> # << pc'[p], loc'[p] >>

\* the key of the call has a context and an open page registered
Reusable(key) ==
  /\ MapHas(activeContexts, key)
  /\ MapHas(activePages, key)
  /\ contexts[MapGet(activePages, key)].pageOpen

\* C32: a step of getOrCreatePage changes the session store only when it
\* creates a context from the session file it read, and then only the
\* lastUsed of that file; a call that finds a context and an open page
\* registered under its key returns them at once and leaves the session
\* store, the pool, the contexts and the registry as they are.
C32_TouchOnlyOnSeededCreation ==
  [][\A p \in Procs :
       GetOrCreatePageStep(p) =>
         /\ sessionFiles' # sessionFiles =>
              /\ pc[p] = "newContext" /\ pc'[p] = "addInitScript"
              /\ Len(contexts') = Len(contexts) + 1
              /\ contexts'[Len(contexts')].state =
                   sessionFiles[getSessionPath(call[p].session)].state
              /\ \A f \in SessionPaths :
                   IF f = getSessionPath(call[p].session)
                     THEN sessionFiles'[f] = [sessionFiles[f] EXCEPT !.lastUsed = now]
                     ELSE sessionFiles'[f] = sessionFiles[f]
         /\ (pc[p] = "idle"
             /\ Reusable(getContextKey(call'[p].contextId, call'[p].session))) =>
              /\ pc'[p] = "done"
              /\ UNCHANGED << sessionFiles, poolVars, contexts, registryVars >>]_vars

\* a call reuses the entry of a seeded context whose session was touched
\* earlier
C32_Witness ==
  \E p \in Procs :
    /\ pc[p] = "done" /\ call[p].op = "getOrCreatePage" /\ ~ret[p].created
    /\ call[p].session = <<"b">>
    /\ ret[p].context # Null
    /\ contexts[ret[p].context].state # {}
    /\ sessionFiles[getSessionPath(<<"b">>)].lastUsed \in 1..(now - 1)


(* ------------------- recovery after teardown (C33) --------------------- *)

\* the engine calls of getOrCreatePage resolve
CreationSettles(p) ==
  \/ LaunchOk(p)
  \/ NewContextOk(p)
  \/ AddInitScriptOk(p)
  \/ NewPageOk(p)

\* nothing is running: the next call begins after the teardown is over
AllIdle == \A q \in Procs : ~Running(q)

\* closeAll is between its first and its last step
TearingDown == \E q \in Procs : call[q].op = "closeAll" /\ Running(q)

\* teardown between calls: closeAll whose close() calls may reject, or a
\* pooled browser that dies; afterwards getOrCreatePage in either mode
RecoverNext ==
  \/ ~TearingDown /\ \E p \in Procs, k \in PoolKeys, h \in BOOLEAN :
                        GetOrCreatePage(p, k[1], k[2], h)
  \/ \E p \in Procs : CreationSettles(p)
  \/ \E p \in Procs : Return(p)
  \/ AllIdle /\ CloseAll(Operator)
  \/ \E ok \in BOOLEAN : CloseAllClose(Operator, ok)
  \/ \E ok \in BOOLEAN : CloseAllHeadless(Operator, ok)
  \/ \E ok \in BOOLEAN : CloseAllHeaded(Operator, ok)
  \/ AllIdle /\ \E b \in 1..MaxBrowsers : BrowserCrash(b)

RecoverSpec == Init /\ [][RecoverNext]_vars

\* the engine settles every call of getOrCreatePage it was given
RecoverFairSpec == RecoverSpec /\ \A p \in Procs : WF_vars(CreationSettles(p))

InGetOrCreatePage(p) == call[p].op = "getOrCreatePage" /\ Running(p)

\* closeAll has returned and no call has begun since: both maps and both
\* slots are empty
TornDownByCloseAll ==
  \A p \in Procs :
    pc[p] = "done" /\ call[p].op = "closeAll" /\ quiet[p] =>
      /\ activeContexts = <<>>
      /\ activePages = <<>>
      /\ headlessBrowser = Null
      /\ headedBrowser = Null

\* the page of a registered context whose browser is gone reports closed
DeadBrowserMisses ==
  \A key \in MapKeys(activePages) :
    LET c == MapGet(activeContexts, key) IN
    c # Null /\ ~browsers[contexts[c].browser].connected =>
      PageIsClosed(MapGet(activePages, key))

\* a call that misses while the slot of its mode is empty or disconnected
\* awaits a launch
MissLaunches ==
  \A p \in Procs :
    pc[p] = "idle" /\ call'[p].op = "getOrCreatePage" =>
      LET key == getContextKey(call'[p].contextId, call'[p].session) IN
      NeedsNewPage(key) /\ NeedsLaunch(call'[p].headless) => pc'[p] = "launch"

\* the call returned a live page of a live context, registered under its
\* key, and a context it created runs in a browser of the requested mode
Recovered(p) ==
  /\ pc[p] = "done"
  /\ call[p].op = "getOrCreatePage"
  /\ ret[p].success
  /\ ContextOpen(ret[p].context)
  /\ ~PageIsClosed(ret[p].page)
  /\ browsers[contexts[ret[p].context].browser].connected
  /\ MapGet(activeContexts, getContextKey(call[p].contextId, call[p].session))
       = ret[p].context
  /\ MapGet(activePages, getContextKey(call[p].contextId, call[p].session))
       = ret[p].page
  /\ ret[p].created =>
       browsers[contexts[ret[p].context].browser].headless = call[p].headless

\* C33: the pool and the registry recover after teardown.  When closeAll
\* has returned both maps and both slots are empty, and a registered page
\* whose browser died reports closed, so the next getOrCreatePage misses;
\* a call that misses with the slot of its mode empty or disconnected
\* launches a browser; and every call of getOrCreatePage ends returning a
\* live registered context and page.
C33_PoolRecoversAfterTeardown ==
  /\ [](TornDownByCloseAll /\ DeadBrowserMisses)
  /\ [][MissLaunches]_vars
  /\ \A p \in Procs : InGetOrCreatePage(p) ~> Recovered(p)

\* a call has recovered with a context it created in a browser launched
\* after an earlier browser of the same mode was torn down
C33_Witness ==
  \E p \in Procs :
    /\ Recovered(p)
    /\ ret[p].created
    /\ \E b \in DOMAIN browsers :
         /\ b < contexts[ret[p].context].browser
         /\ browsers[b].headless = call[p].headless
         /\ ~browsers[b].connected


(* ------------------ MCP Streamable HTTP sessions (C34) ----------------- *)

\* the mcp-session-id header a client sends: none, or an id it chose
NoSessionId == <<>>
ClientSessionIds == { <<"s">> }

\* randomUUID(): an id no earlier call returned, here the one of the
\* transport being constructed
Digits == << "1", "2", "3", "4", "5", "6", "7", "8", "9" >>
randomUUID == << "u", Digits[Len(mcpTransports) + 1] >>

\* the ids a request can carry: none, one the client chose, or one a
\* transport was constructed with
HeaderSessionIds ==
  {NoSessionId} \cup ClientSessionIds
    \cup { mcpTransports[t].generates : t \in 1..Len(mcpTransports) }

\* new StreamableHTTPServerTransport({ sessionIdGenerator: () => id, ... })
NewTransport(id) ==
  [generates |-> id, sessionId |-> NoSessionId, initialized |-> FALSE, closed |-> FALSE]

\* part_005:460  sessionId || randomUUID()
effectiveSessionId(sessionId) ==
  IF sessionId # NoSessionId THEN sessionId ELSE randomUUID

\* as autoSessionId when the stale session is replaced by a fresh id
autoSessionIdFresh(sessionId) == randomUUID

\* part_005:489  sessionIdGenerator: () => sessionId
autoSessionId(sessionId) == sessionId

\* the transport handles an initialize request: it takes the id of its
\* generator and calls onsessioninitialized, which registers it
\* (part_005:466-469, 491-494)
TransportsAfterInit(t) == MapSet(transports, mcpTransports[t].generates, t)

\* transport.close(): the transport is closed and calls onclose, which
\* deletes the entry of its session id if there is one (part_005:472-478,
\* 497-503)
TransportsAfterClose(t) ==
  IF mcpTransports[t].sessionId # NoSessionId
     /\ MapHas(transports, mcpTransports[t].sessionId)
    THEN MapDelete(transports, mcpTransports[t].sessionId)
    ELSE transports

\* part_005:441-550  handlePost up to its first await
HandlePost(p, sessionId, isInit) ==
  /\ pc[p] = "idle"
  /\ call' = [call EXCEPT ![p] = [NoCall EXCEPT !.op = "handlePost",
                                  !.session = sessionId,
                                  !.type = IF isInit THEN "initialize" ELSE "other"]]
  /\ IF sessionId # NoSessionId /\ MapHas(transports, sessionId)
       THEN /\ pc' = [pc EXCEPT ![p] = "mcpHandle"]
            /\ loc' = [loc EXCEPT ![p] = [NoLoc EXCEPT
                         !.transport = MapGet(transports, sessionId)]]
            /\ UNCHANGED << mcpTransports, ret >>
       ELSE IF isInit
         THEN /\ Len(mcpTransports) < MaxTransports
              /\ mcpTransports' =
                   Append(mcpTransports, NewTransport(effectiveSessionId(sessionId)))
              /\ pc' = [pc EXCEPT ![p] = "mcpConnect"]
              /\ loc' = [loc EXCEPT ![p] = [NoLoc EXCEPT
                           !.transport = Len(mcpTransports) + 1]]
              /\ UNCHANGED ret
         ELSE IF sessionId # NoSessionId
           THEN /\ Len(mcpTransports) < MaxTransports
                /\ mcpTransports' =
                     Append(mcpTransports, NewTransport(autoSessionId(sessionId)))
                /\ pc' = [pc EXCEPT ![p] = "mcpConnect"]
                /\ loc' = [loc EXCEPT ![p] = [NoLoc EXCEPT
                             !.transport = Len(mcpTransports) + 1]]
                /\ UNCHANGED ret
           ELSE /\ pc' = [pc EXCEPT ![p] = "done"]
                /\ ret' = [ret EXCEPT ![p] = [NoRet EXCEPT !.status = 400]]
                /\ loc' = [loc EXCEPT ![p] = NoLoc]
                /\ UNCHANGED mcpTransports
  /\ quiet' = QuietAfterStart(p)
  /\ UNCHANGED << profileLock, clients, transports, eventVars, bridgeVars, now, saved,
                  poolVars, contexts, registryVars, loginVars >>

\* server.connect(transport) resolved.  An initialize request is handed to
\* the transport, which initializes; for a stale session the handshake is
\* simulated first and its end awaited (part_005:481-482, 506-536)
McpConnected(p) ==
  LET t == loc[p].transport IN
  /\ pc[p] = "mcpConnect"
  /\ mcpTransports' = [mcpTransports EXCEPT ![t].initialized = TRUE,
                                            ![t].sessionId = mcpTransports[t].generates]
  /\ transports' = TransportsAfterInit(t)
  /\ pc' = [pc EXCEPT ![p] = IF call[p].type = "initialize" THEN "mcpHandle"
                                                            ELSE "mcpAutoInit"]
  /\ UNCHANGED << profileLock, clients, eventVars, bridgeVars, now, saved, poolVars,
                  contexts, registryVars, loginVars, call, loc, ret, quiet >>

\* the simulated handshake ended: the request itself is handed to the
\* transport (part_005:539)
McpAutoInitialized(p) ==
  /\ pc[p] = "mcpAutoInit"
  /\ pc' = [pc EXCEPT ![p] = "mcpHandle"]
  /\ UNCHANGED << hostVars, bridgeVars, now, saved, poolVars, contexts, registryVars,
                  loginVars, call, loc, ret, quiet >>

\* transport.handleRequest(req, res, req.body) resolved
McpHandled(p) ==
  /\ pc[p] = "mcpHandle"
  /\ pc' = [pc EXCEPT ![p] = "done"]
  /\ ret' = [ret EXCEPT ![p] = [NoRet EXCEPT !.status = 200,
                                  !.transport = loc[p].transport, !.success = TRUE]]
  /\ loc' = [loc EXCEPT ![p] = NoLoc]
  /\ UNCHANGED << hostVars, bridgeVars, now, saved, poolVars, contexts, registryVars,
                  loginVars, call, quiet >>

\* part_005:577-597  handleDelete up to the await of transport.close()
HandleDelete(p, sessionId) ==
  /\ pc[p] = "idle"
  /\ call' = [call EXCEPT ![p] = [NoCall EXCEPT !.op = "handleDelete",
                                  !.session = sessionId]]
  /\ IF sessionId = NoSessionId \/ ~MapHas(transports, sessionId)
       THEN /\ pc' = [pc EXCEPT ![p] = "done"]
            /\ ret' = [ret EXCEPT ![p] = [NoRet EXCEPT !.status = 404]]
            /\ UNCHANGED << loc, mcpVars >>
       ELSE LET t == MapGet(transports, sessionId) IN
            /\ mcpTransports' = [mcpTransports EXCEPT ![t].closed = TRUE]
            /\ transports' = TransportsAfterClose(t)
            /\ pc' = [pc EXCEPT ![p] = "mcpDelete"]
            /\ loc' = [loc EXCEPT ![p] = [NoLoc EXCEPT !.transport = t]]
            /\ UNCHANGED ret
  /\ quiet' = QuietAfterStart(p)
  /\ UNCHANGED << profileLock, clients, eventVars, bridgeVars, now, saved, poolVars,
                  contexts, registryVars, loginVars >>

\* part_005:594-596  after the await: transports.delete(sessionId)
McpDeleted(p) ==
  /\ pc[p] = "mcpDelete"
  /\ transports' = MapDelete(transports, call[p].session)
  /\ pc' = [pc EXCEPT ![p] = "done"]
  /\ ret' = [ret EXCEPT ![p] = [NoRet EXCEPT !.status = 200, !.success = TRUE]]
  /\ loc' = [loc EXCEPT ![p] = NoLoc]
  /\ UNCHANGED << profileLock, clients, mcpTransports, eventVars, bridgeVars, now, saved,
                  poolVars, contexts, registryVars, loginVars, call, quiet >>

\* the for..of loop of closeAllSessions: every entry it has passed was
\* deleted by onclose, so the next entry is the first one left; it is closed
\* and the close awaited, or the map is exhausted and cleared
CloseNextSession(p) ==
  IF transports = <<>>
    THEN /\ transports' = <<>>
         /\ pc' = [pc EXCEPT ![p] = "done"]
         /\ ret' = [ret EXCEPT ![p] = [NoRet EXCEPT !.success = TRUE]]
         /\ UNCHANGED mcpTransports
    ELSE LET t == transports[1].val IN
         /\ mcpTransports' = [mcpTransports EXCEPT ![t].closed = TRUE]
         /\ transports' = TransportsAfterClose(t)
         /\ pc' = [pc EXCEPT ![p] = "mcpCloseAll"]
         /\ UNCHANGED ret

\* part_005:635-641  closeAllSessions is called
CloseAllSessions(p) ==
  /\ pc[p] = "idle"
  /\ call' = [call EXCEPT ![p] = [NoCall EXCEPT !.op = "closeAllSessions"]]
  /\ CloseNextSession(p)
  /\ quiet' = QuietAfterStart(p)
  /\ UNCHANGED << profileLock, clients, eventVars, bridgeVars, now, saved, poolVars,
                  contexts, registryVars, loginVars, loc >>

\* transport.close() of closeAllSessions resolved: the loop goes on
McpSessionClosed(p) ==
  /\ pc[p] = "mcpCloseAll"
  /\ CloseNextSession(p)
  /\ UNCHANGED << profileLock, clients, eventVars, bridgeVars, now, saved, poolVars,
                  contexts, registryVars, loginVars, call, loc, quiet >>

\* a transport is closed from its own side (its server closes)
TransportCloses(t) ==
  /\ t \in 1..Len(mcpTransports)
  /\ mcpTransports[t].initialized
  /\ ~mcpTransports[t].closed
  /\ mcpTransports' = [mcpTransports EXCEPT ![t].closed = TRUE]
  /\ transports' = TransportsAfterClose(t)
  /\ UNCHANGED << profileLock, clients, eventVars, bridgeVars, now, saved, poolVars,
                  contexts, registryVars, loginVars, pc, call, loc, ret, quiet >>

\* the MCP endpoint: POST, DELETE and shutdown from two callers
McpNext ==
  \/ \E p \in Procs, sid \in HeaderSessionIds, isInit \in BOOLEAN :
       HandlePost(p, sid, isInit)
  \/ \E p \in Procs : McpConnected(p)
  \/ \E p \in Procs : McpAutoInitialized(p)
  \/ \E p \in Procs : McpHandled(p)
  \/ \E p \in Procs, sid \in HeaderSessionIds : HandleDelete(p, sid)
  \/ \E p \in Procs : McpDeleted(p)
  \/ \E p \in Procs : CloseAllSessions(p)
  \/ \E p \in Procs : McpSessionClosed(p)
  \/ \E t \in 1..MaxTransports : TransportCloses(t)
  \/ \E p \in Procs : Return(p)

McpSpec == Init /\ [][McpNext]_vars


\* the transport table holds initialized, open transports under their own
\* session ids
TableHoldsLiveSessions ==
  \A i \in 1..Len(transports) :
    LET t == transports[i].val IN
    /\ mcpTransports[t].initialized
    /\ ~mcpTransports[t].closed
    /\ mcpTransports[t].sessionId = transports[i].key

KnownSession(sessionId) == sessionId # NoSessionId /\ MapHas(transports, sessionId)

\* the branch handlePost takes for the request of p
PostRouted(p) ==
  pc[p] = "idle" /\ call'[p].op = "handlePost" =>
    LET sessionId == call'[p].session
        isInit == call'[p].type = "initialize"
        n == Len(mcpTransports) IN
    IF KnownSession(sessionId)
      THEN /\ loc'[p].transport = MapGet(transports, sessionId)
           /\ pc'[p] = "mcpHandle"
           /\ UNCHANGED mcpVars
      ELSE IF isInit \/ sessionId # NoSessionId
        THEN /\ Len(mcpTransports') = n + 1
             /\ SubSeq(mcpTransports', 1, n) = mcpTransports
             /\ loc'[p].transport = n + 1
             /\ ~mcpTransports'[n + 1].initialized
             /\ sessionId # NoSessionId => mcpTransports'[n + 1].generates = sessionId
             /\ UNCHANGED transports
        ELSE /\ pc'[p] = "done"
             /\ ret'[p].status = 400
             /\ UNCHANGED mcpVars

\* the transport constructed for p is initialized and registered under its
\* session id, and nothing else of the table changes
PostRegistered(p) ==
  pc[p] = "mcpConnect" /\ pc'[p] # "mcpConnect" =>
    LET t == loc[p].transport IN
    /\ mcpTransports'[t].initialized
    /\ call[p].session # NoSessionId => mcpTransports'[t].sessionId = call[p].session
    /\ MapGet(transports', mcpTransports'[t].sessionId) = t
    /\ MapKeys(transports') = MapKeys(transports) \cup { mcpTransports'[t].sessionId }
    /\ \A k \in MapKeys(transports) \ { mcpTransports'[t].sessionId } :
         MapGet(transports', k) = MapGet(transports, k)

\* the request is handled by the transport chosen for it
PostHandled(p) ==
  call[p].op = "handlePost" /\ pc[p] = "mcpHandle" /\ pc'[p] = "done" =>
    /\ ret'[p].status = 200
    /\ ret'[p].transport = loc[p].transport
    /\ mcpTransports[loc[p].transport].initialized
    /\ call[p].session # NoSessionId =>
         mcpTransports[loc[p].transport].sessionId = call[p].session

\* C34: routing of POST requests to MCP sessions.  A request with a known
\* session id goes to the transport of the table and changes nothing; an
\* initialize request with no known session constructs one transport, which
\* is registered under its session id; any other request with an unknown
\* session id constructs one transport that is initialized and registered
\* under that same id and then handles the request; any other request
\* without a session id is answered 400 and constructs nothing.  Every entry
\* of the table is an initialized transport that has not been closed, under
\* its own session id.
C34_PostRoutedToSession ==
  /\ []TableHoldsLiveSessions
  /\ [][\A p \in Procs : PostRouted(p) /\ PostRegistered(p) /\ PostHandled(p)]_vars

\* a request to a stale session id has been handled by a transport
\* initialized for it under that id and registered, after the earlier
\* transport of that id was closed
C34_Witness ==
  \E p \in Procs :
    /\ pc[p] = "done"
    /\ call[p].op = "handlePost"
    /\ call[p].type = "other"
    /\ ret[p].status = 200
    /\ MapGet(transports, call[p].session) = ret[p].transport
    /\ \E t \in 1..Len(mcpTransports) :
         /\ t < ret[p].transport
         /\ mcpTransports[t].closed
         /\ mcpTransports[t].sessionId = call[p].session


\* context c is still in the hands of the call that is creating it
BeingCreated(c) == \E p \in Procs : Running(p) /\ loc[p].ctx = c

\* C35: the registry never leaks: every live context that getOrCreatePage
\* created and is done with is registered under its key, also when
\* createPage failed and when the entry of a closed page was replaced.
C35_RegistryNeverLeaks ==
  \A c \in 1..Len(contexts) :
    ContextOpen(c) /\ ~BeingCreated(c) =>
      MapGet(activeContexts, getContextKey(contexts[c].contextId, contexts[c].session)) = c


\* C36: closeContext removes only the context it closed: whenever an entry
\* leaves the registry, the context it held is the one whose close() has
\* just resolved, so an entry that getOrCreatePage registered under the same
\* key while closeContext was suspended stays registered.
C36_CloseContextRemovesOnlyItsOwn ==
  [][\A i \in 1..Len(activeContexts) :
       LET k == activeContexts[i].key
           c == activeContexts[i].val IN
       ~MapHas(activeContexts', k) =>
         /\ ~contexts'[c].open
         /\ \E p \in Procs : pc[p] = "ccClose" /\ loc[p].ctx = c]_vars


(* ------------- login sessions opened and closed at once (C37) ---------- *)

\* the client opens login windows under both names while the operator
\* closes them; every close() resolves
LoginRaceNext ==
  \/ \E n \in SessionNames : StartLoginSession(Client, n)
  \/ \E p \in Procs : StartLoginPriorClosed(p, TRUE)
  \/ \E p \in Procs : StartLoginLaunchOk(p)
  \/ \E p \in Procs : StartLoginInitOk(p)
  \/ \E p \in Procs : StartLoginNewPageOk(p)
  \/ \E p \in Procs : StartLoginGotoOk(p)
  \/ \E n \in SessionNames : CloseLoginSession(Operator, n)
  \/ \E p \in Procs, ok \in BOOLEAN : CloseLoginState(p, ok)
  \/ \E p \in Procs : CloseLoginClose(p, TRUE)
  \/ \E p \in Procs : CloseLoginCloseAgain(p, TRUE)
  \/ \E p \in Procs : Return(p)

LoginRaceSpec == Init /\ [][LoginRaceNext]_vars

\* C37: every live login context is tracked: a context registered as active
\* leaves the active set only closed, so a closeLoginSession that began
\* before a superseding startLoginSession does not remove the newer entry.
C37_LoginEntryLeavesOnlyClosed ==
  [][\A n \in SessionNames :
       LET c == activeLoginSessions[n] IN
       c # Null /\ activeLoginSessions'[n] # c => ~loginContexts'[c].open]_vars


\* C38: getStatus() reports realChromeConnected only while the context
\* launched on the persistent profile is open, as it reports the pooled
\* browsers and the remote-debugging connection only while they are
\* connected.
C38_StatusFlagsMeanLive ==
  /\ getStatus.realChromeConnected => ProfileLive
  /\ getStatus.headlessConnected => browsers[headlessBrowser].connected
  /\ getStatus.headedConnected => browsers[headedBrowser].connected
  /\ getStatus.cdpConnected => cdpBrowsers[connectedBrowser].connected


\* C39: the context getOrCreatePage returns runs in a browser of the
\* requested mode, whether it was created by the call or reused from an
\* entry registered earlier under the same key.
C39_ReturnedContextInRequestedMode ==
  \A p \in Procs :
    pc[p] = "done" /\ call[p].op = "getOrCreatePage" =>
      browsers[contexts[ret[p].context].browser].headless = call[p].headless


(* ----------------- page events of navigate (C40) ----------------------- *)

\* handleMessage 'navigate' has its page and has not attached yet
NavigateHasPage(p) ==
  /\ pc[p] = "done"
  /\ call[p].via = "ws"
  /\ call[p].type = "navigate"
  /\ ret[p].success
  /\ ret[p].message = "none"

\* part_003:69-91  after getOrCreatePage: page.on('load', ...) with the
\* socket of the client in its closure (and likewise 'console' and
\* 'pageerror'), then page.goto is awaited
NavigateAttaches(p) ==
  /\ NavigateHasPage(p)
  /\ loadListeners' = Append(loadListeners, [page |-> ret[p].page,
                                             client |-> call[p].client])
  /\ pc' = [pc EXCEPT ![p] = "wsGoto"]
  /\ UNCHANGED << profileLock, clients, mcpVars, pageLoads, bridgeVars, now, saved, poolVars,
                  contexts, registryVars, loginVars, call, loc, ret, quiet >>

\* part_003:93-101  page.goto settled: the navigate answer is sent, or the
\* rejection goes to the catch block of handleMessage
NavigateGoto(p, ok) ==
  /\ pc[p] = "wsGoto"
  /\ pc' = [pc EXCEPT ![p] = "done"]
  /\ ret' = [ret EXCEPT ![p].message = "navigate", ![p].success = ok, ![p].error = ~ok]
  /\ UNCHANGED << hostVars, bridgeVars, now, saved, poolVars, contexts, registryVars,
                  loginVars, call, loc, quiet >>

\* sendMessage: only a socket that is open is sent to
SendsTo(cl) == clients[cl].sock = "open"

\* the page of context c fires 'load': each of its listeners runs once, in
\* the order they were attached, and sends 'page:load' to its client; due
\* are the clients that navigated this page and can be sent to
PageLoad(c) ==
  LET mine == SelectSeq(loadListeners, LAMBDA l : l.page = c /\ SendsTo(l.client)) IN
  /\ c \in DOMAIN contexts
  /\ contexts[c].pageOpen
  /\ pageLoads' = [page |-> c,
                   due |-> { mine[i].client : i \in 1..Len(mine) },
                   sent |-> [i \in 1..Len(mine) |-> mine[i].client]]
  /\ UNCHANGED << profileLock, clients, mcpVars, loadListeners, bridgeVars, now, saved,
                  poolVars, contexts, registryVars, loginVars, pc, call, loc, ret, quiet >>

\* clients that connect and navigate, pages that load
NavigateNext ==
  \/ \E c \in WsClients : Connection(c)
  \/ \E c \in WsClients :
       /\ Len(loadListeners) + Cardinality({q \in Procs : Running(q) \/ NavigateHasPage(q)})
            < MaxListeners
       /\ OnMessage(c, Client, "navigate", NoSession)
  \/ \E p \in Procs : CreationSettles(p)
  \/ \E p \in Procs : NavigateAttaches(p)
  \/ \E p \in Procs, ok \in BOOLEAN : NavigateGoto(p, ok)
  \/ \E p \in Procs : ~NavigateHasPage(p) /\ Return(p)
  \/ \E c \in 1..MaxContexts : PageLoad(c)

NavigateSpec == Init /\ [][NavigateNext]_vars

\* the number of messages of a load event that went to client cl
SentTo(cl) == Cardinality({ i \in 1..Len(pageLoads.sent) : pageLoads.sent[i] = cl })

\* C40: a load event of a page produces exactly one 'page:load' message
\* to the client that navigated it, however many navigate requests the
\* client has issued on that context, and none to any other client.
C40_OneMessagePerLoad ==
  \A cl \in WsClients : SentTo(cl) = IF cl \in pageLoads.due THEN 1 ELSE 0

====
